---- MODULE Spec2Model ----
(***************************************************************************)
(* The synchronization runtime of RustSyncCV-Client: the clipboard monitor *)
(* and applier (GUI/src/runtime/clipboard.rs), the server connection loop  *)
(* and the supervisor (GUI/src/runtime/mod.rs).                            *)
(*                                                                         *)
(* Time is counted in units of 100 ms.  An Instant the code keeps is       *)
(* modelled by its age (now - instant), saturated at the largest value the *)
(* code compares it with; a sleep is modelled by the time it has left.     *)
(* The sleeps of the connection loop are counted in seconds.               *)
(***************************************************************************)
EXTENDS Integers, Sequences, FiniteSets, TLC

\* A session is one task set (monitor, applier, connection) with its own
\* suppression flag, device id and channels; it runs on one machine.
Sessions == {"alpha", "beta"}
Machines == {"m1", "m2"}

\* ---- program constants (units of 100 ms) --------------------------------
MONITOR_INTERVAL == 5
MIN_BROADCAST_INTERVAL == 4

CONTENT_TYPE_TEXT == "text/plain"
CONTENT_TYPE_IMAGE_PNG == "image/png"

\* ---- bounds of the model ------------------------------------------------
\* Config.max_image_kb of the session (any value 1.. behaves alike: the
\* image sizes below are placed around max_image_kb * 1024).
MaxImageKb == 1
\* payloads the transport may have queued for the applier at one time
MaxInbound == 1
\* saturation of the counters that only observe the run
MaxCount == 2

Min(x, y) == IF x <= y THEN x ELSE y
Max(x, y) == IF x >= y THEN x ELSE y

\* ---- clipboard contents -------------------------------------------------
\* What the OS clipboard holds: a text, an RGBA image, or nothing readable.
Txt(s) == [kind |-> "text", data |-> s]
Img(i) == [kind |-> "image", data |-> i]
NoContent == [kind |-> "none", data |-> ""]

Texts == {"", "a", "b"}
\* p1, p2: images within the limit; p3: an oversized one.
Images == {"p1", "p2", "p3"}
Contents == {Txt(s) : s \in Texts} \cup {Img(i) : i \in Images} \cup {NoContent}
\* what a user copies: a non-empty text or an image
UserContents == {c \in Contents : c.kind # "none" /\ c.data # ""}

\* encoded.len() of encode_png(image): p2 sits exactly on the threshold.
PngLen(i) ==
    CASE i = "p1" -> MaxImageKb * 1024 - 1
      [] i = "p2" -> MaxImageKb * 1024
      [] OTHER    -> MaxImageKb * 1024 + 1

\* DefaultHasher over the PNG bytes: equal bytes, equal hash.
PngHash(i) == i

VARIABLES
    machine,          \* the machine each session runs on
    clipboard,        \* the OS clipboard of each machine
    clip_src,         \* who wrote it last: "user" or "applier"
    disable_flag,     \* Arc<AtomicBool> shared by monitor and applier
    cancel,           \* CancellationToken of the session
    subscribed,       \* whether a transport holds a tx_out subscription
    rx_updates,       \* that subscription's pending ClipboardUpdates
    \* monitor
    mon_pc,           \* "top" | "reading" | "eval" | "sleep" | "done"
    mon_read,         \* result of read_clipboard_content()
    read_src,         \* clip_src at the moment of that read
    poll_applied,     \* the poll began after an applier write had completed
    last_text,
    last_image_hash,  \* "none" or a hash
    since_send,       \* now - last_send_time, saturated
    sleep_left,       \* time left of the monitor's sleep
    outcome,          \* branch the last evaluation took
    echoed,           \* it broadcast what the applier had put on the clipboard
    sent_now,         \* the updates the last evaluation passed to tx.send
    since_emit,       \* time since the last tx.send, saturated
    run_val,          \* content of the current run of evaluated polls
    run_fresh,        \* whether that content was a change when the run began
    run_emits,        \* tx.send calls in the run
    run_warns,        \* Warn logs about an oversized image in the run
    \* applier
    rx_in,            \* mpsc queue of ClipboardBroadcastPayload
    set_pc,           \* "idle" | "writing" | "written" | "done"
    set_payload,      \* payload being handled
    set_result,       \* how the handling of the last payload ended
    \* observers
    emit_total,       \* tx.send calls of the session's monitor so far
    \* server connection
    conn_pc,          \* position of run_connection_loop
    conn_timer,       \* time left of its sleep, in seconds
    wire_up,          \* frames written to the WebSocket, not yet at the relay
    wire_down,        \* frames the relay has sent, not yet read
    \* supervisor (RuntimeWorker) of the agent on m1
    commands,         \* mpsc queue of RuntimeCommand, each with its ticket: how
                      \* many commands were enqueued before it
    sup_pc,           \* "recv" | "pause_await" | "ended"
    active,           \* session of the active task set, or NoSession
    awaiting,         \* session whose JoinHandles stop_tasks(false) awaits
    last_options,     \* remembered StartOptions, or NoOptions
    paused,
    bus_last,         \* last Connection event published, and by whom
    enq_count,        \* commands enqueued so far
    handled_count,    \* commands taken by the loop so far
    last_taken,       \* the command taken last, with its ticket
    last_given,       \* options of the Start or Reload taken last
    given_noop,       \* that command was a Start taken while a task set was
                      \* active (its start_tasks returned at once)
    sup_error,        \* handling the command taken last published an Error
    spawned_from,     \* the options each task set was created from
    device_id,        \* Uuid::new_v4() of each task set (0: none)
    zombie            \* task set aborted while its connection task was being
                      \* polled: that task runs on until it next yields

\* LAN mode (src-tauri/src/runtime/lan): the agents of one broadcast domain
VARIABLES
    lan_now,          \* the clock, in seconds (now_unix_secs)
    own_device_id,    \* Uuid::new_v4() of the agent's LAN mode (0: not running)
    peers,            \* DiscoveredPeers of each agent, keyed by device_id
    connected,        \* the peer connector's set of attempted device ids
    clients,          \* the client task the connector spawned per device id
    spawn_count,      \* client tasks spawned per device id so far
    scan_left,        \* time left of the connector's sleep
    disc_last         \* what the listener did with the datagram it took last

\* one end of a TCP connection between two agents
VARIABLES
    peer_role,        \* "client" (run_tcp_client) | "host" (host_session)
    peer_pc,          \* "connecting" | "handshake" | "session" | "wait" |
                      \* "stopped" (client task over) | "closed" (host session over)
    peer_cancel,      \* the LAN CancellationToken has fired
    peer_inbound,     \* the head of the inbound stream: the next frame, as far
                      \* as it has arrived, or NoFrame
    peer_updates,     \* ClipboardUpdates pending in the tx_out subscription
    since_pong,       \* last_pong.elapsed(), in seconds, saturated
    hb_left,          \* time to the next tick of heartbeat_tick
    delay_secs,       \* run_tcp_client's back-off
    wait_left,        \* time left of its sleep
    wait_secs,        \* the length of the wait begun last
    peer_result,      \* how the last connection ended
    peer_subscribed,  \* the end holds a subscription to the fan-out
    peer_forwarded,   \* a payload of this connection went to the applier queue
    peer_out,         \* handshake messages written on this connection
    peer_alloc,       \* size of the payload buffer of the frame read last
    peer_arm,         \* what the end did in the step just taken
    peer_reading,     \* the pending read consumed a prefix, awaits its payload
    hb_streak         \* connections in a row that ended by heartbeat timeout

peerVars == <<peer_role, peer_pc, peer_cancel, peer_inbound, peer_updates,
              since_pong, hb_left, delay_secs, wait_left, wait_secs,
              peer_result, peer_subscribed, peer_forwarded, peer_out,
              peer_alloc, peer_arm, peer_reading, hb_streak>>

\* start and shutdown of LAN mode on one agent
VARIABLES
    lan_pc,           \* start_lan_mode: "idle" | "binding_tcp" | "bound" |
                      \* "started" | "failed"; LanTasks::shutdown: "shutting" |
                      \* "taken" (dynamic_handles taken) | "down" (returned)
    udp_socket,       \* the discovery socket of this start is bound
    tcp_listener,     \* the TCP listener of this start is bound
    core,             \* the six core tasks: "none" | "running" | "done"
    lan_token,        \* the LAN CancellationToken has fired
    await_idx,        \* shutdown: position in LanTasks.handles
    client_task,      \* the client tasks the connector spawned
    lan_taken,        \* shutdown: the dynamic handles still to await
    host_task         \* the session tasks the TCP host spawned

startVars == <<lan_pc, udp_socket, tcp_listener, core, lan_token, await_idx,
               client_task, lan_taken, host_task>>

\* the event bus between the runtime and the UI
VARIABLES
    bus_queue,        \* the events in the channel
    bus_pending,      \* per producer: the event whose send is waiting
    bus_started,      \* per producer: Connection events whose send was begun
    bus_got,          \* per producer: the Connection events the UI received
    bus_alive,        \* per producer: its task exists
    bus_aborted       \* per producer: the Connection events whose send was
                      \* still waiting when the task was aborted

busVars == <<bus_queue, bus_pending, bus_started, bus_got, bus_alive,
             bus_aborted>>

\* the fan-out of the monitor's updates and the sessions subscribed to it
VARIABLES
    fan_sent,         \* updates the monitor has broadcast
    fan_pc,           \* per path: the session is "idle", in "select", "ended"
    fan_next,         \* per path: the update the subscription yields next
    fan_from,         \* per path: updates broadcast before the subscription
    fan_wire,         \* per path: the updates written to the socket
    fan_writing,      \* per path: the frame a write_all has begun
    fan_warns,        \* per path: Warn lines about lag
    fan_result,       \* per path: how the last session ended
    fan_lagged,       \* per path: the updates the subscription skipped
    fan_torn,         \* per path: a frame was begun inside another one
    fan_arm           \* the arm the last step ran, and of which path

fanVars == <<fan_sent, fan_pc, fan_next, fan_from, fan_wire, fan_writing,
             fan_warns, fan_result, fan_lagged, fan_torn, fan_arm>>

\* the settings: the store, the form and the Config the runtime was given
VARIABLES
    cfg_store,        \* max_image_kb of the Config in config.json
    cfg_form,         \* max_image_kb of the last form save_settings was given
    cfg_run,          \* max_image_kb of the Config the runtime was started with
    cfg_threshold,    \* what the monitor computed as max_image_kb * 1024
    cfg_via,          \* the way the runtime's Config came: "start", "save"
    cfg_shown         \* max_image_kb of the form the settings page was given

cfgVars == <<cfg_store, cfg_form, cfg_run, cfg_threshold, cfg_via, cfg_shown>>

\* the inbound path of LAN mode: one peer session and the applier behind it
VARIABLES
    rcv_sent,         \* how many Clipboard frames the remote has written
    rcv_frames,       \* per frame: its content_type and whether its data decodes
    rcv_pc,           \* the session: "select", "forward", "publish", "stopped"
    rcv_hand,         \* the frame the session is dispatching, or 0
    rcv_queue,        \* the frames in the applier queue (tx_in, rx_in)
    rcv_open,         \* the applier still holds rx_in
    rcv_events,       \* per frame: the ClipboardReceived events, by publisher
    rcv_done          \* per frame: what the applier did with it

rcvVars == <<rcv_sent, rcv_frames, rcv_pc, rcv_hand, rcv_queue, rcv_open,
             rcv_events, rcv_done>>

discVars == <<lan_now, own_device_id, peers, connected, clients, spawn_count,
              scan_left, disc_last>>
lanVars == <<discVars, peerVars, startVars>>
\* what no task of the server-mode runtime changes
fixedVars == <<machine, lanVars, busVars, fanVars, cfgVars, rcvVars>>

monVars == <<mon_pc, mon_read, read_src, poll_applied, last_text, last_image_hash, since_send,
             sleep_left, outcome, echoed, sent_now, since_emit, run_val,
             run_fresh, run_emits, run_warns>>
setVars == <<rx_in, set_pc, set_payload, set_result>>
envVars == <<fixedVars, clipboard, clip_src>>
shared == <<disable_flag, cancel, subscribed, rx_updates>>
connVars == <<conn_pc, conn_timer, wire_up, wire_down>>
\* what the monitor, the applier and the clipboard's users never touch
ghostVars == <<enq_count, handled_count, last_taken, last_given, given_noop,
               sup_error, spawned_from>>
idVars == <<device_id, zombie>>
supVars == <<commands, sup_pc, active, awaiting, last_options, paused, bus_last,
             ghostVars, idVars>>
restVars == <<connVars, supVars>>
\* everything a task set owns
taskVars == <<shared, monVars, setVars, emit_total, connVars>>
vars == <<envVars, shared, monVars, setVars, emit_total, restVars>>

\* everything the server-mode runtime owns
serverVars == <<machine, clipboard, clip_src, shared, monVars, setVars,
                emit_total, restVars>>

\* what discovery and the peer connections leave alone
outerVars == <<serverVars, startVars, busVars, fanVars, cfgVars, rcvVars>>

\* ---- LAN mode: discovery ------------------------------------------------
Agents == {"P1", "P2"}
\* the address beacons of an agent come from
AddrOf(a) == IF a = "P1" THEN "ip1" ELSE "ip2"
\* device ids, in the lexicographic order of their strings
DeviceIds == 1..3
\* the clock stops here
MaxNow == 16
PEER_EXPIRY_SECS == 15
CONNECTOR_SCAN_INTERVAL_SECS == 4
DEFAULT_TCP_PORT == 52742
DISCOVERY_MAGIC == "RSCV_LAN"

DiscoveryBeacon(id, name, port) ==
    [device_id |-> id, device_name |-> name, tcp_port |-> port, seq |-> 0]
DiscoveredPeer(id, name, ip, port, seen) ==
    [device_id |-> id, device_name |-> name, addr |-> ip, tcp_port |-> port,
     last_seen |-> seen]
\* no entry under a key of the map
NoPeer == DiscoveredPeer(0, "", "", 0, 0)
NoPeers == [id \in DeviceIds |-> NoPeer]
\* no client task for a device id
NoClient == [addr |-> "", tcp_port |-> 0, pc |-> "none"]
NotHandled == [kind |-> "none", changed |-> FALSE, pruned |-> 0, emits |-> 0]

HEARTBEAT_INTERVAL_SECS == 5
HEARTBEAT_TIMEOUT_SECS == 15
INITIAL_RECONNECT_DELAY_SECS == 1
MAX_RECONNECT_DELAY_SECS == 30
MAX_FRAME_SIZE == 16777216

\* no connection end is modelled
PeerOff ==
    /\ peer_role = "none"
    /\ peer_pc = "stopped"
    /\ peer_cancel = FALSE
    /\ peer_inbound = [len_buf |-> <<>>, body |-> "", part |-> "none"]
    /\ peer_updates = 0
    /\ since_pong = 0
    /\ hb_left = 0
    /\ delay_secs = INITIAL_RECONNECT_DELAY_SECS
    /\ wait_left = 0
    /\ wait_secs = 0
    /\ peer_result = "none"
    /\ peer_subscribed = FALSE
    /\ peer_forwarded = FALSE
    /\ peer_out = {}
    /\ peer_alloc = 0
    /\ peer_arm = "none"
    /\ peer_reading = FALSE
    /\ hb_streak = 0

\* no discovery is modelled
DiscOff ==
    /\ lan_now = 0
    /\ own_device_id = [a \in Agents |-> 0]
    /\ peers = [a \in Agents |-> NoPeers]
    /\ connected = [a \in Agents |-> {}]
    /\ clients = [a \in Agents |-> [id \in DeviceIds |-> NoClient]]
    /\ spawn_count = [a \in Agents |-> [id \in DeviceIds |-> 0]]
    /\ scan_left = [a \in Agents |-> 0]
    /\ disc_last = [a \in Agents |-> NotHandled]

CoreTasks == {"monitor", "setter", "broadcaster", "listener", "host", "connector"}

\* the order of LanTasks.handles
CoreOrder == <<"monitor", "setter", "broadcaster", "listener", "host", "connector">>

MaxClientTasks == 1
MaxHostSessions == 1

\* start_lan_mode has not been called
StartOff ==
    /\ lan_pc = "idle"
    /\ udp_socket = FALSE
    /\ tcp_listener = FALSE
    /\ core = [t \in CoreTasks |-> "none"]
    /\ lan_token = FALSE
    /\ await_idx = 0
    /\ client_task = [i \in 1..MaxClientTasks |-> "none"]
    /\ lan_taken = {}
    /\ host_task = [j \in 1..MaxHostSessions |-> "none"]

Producers == {"supervisor", "connection"}

NoEvent == [src |-> "", kind |-> "", n |-> 0]

\* no event was ever sent
BusOff ==
    /\ bus_queue = <<>>
    /\ bus_pending = [p \in Producers |-> NoEvent]
    /\ bus_started = [p \in Producers |-> 0]
    /\ bus_got = [p \in Producers |-> <<>>]
    /\ bus_alive = [p \in Producers |-> TRUE]
    /\ bus_aborted = [p \in Producers |-> {}]

\* the transport paths that subscribe to the fan-out
Paths == {"server", "peer"}

NoWrite == [frame |-> "", n |-> 0]
NoArm == [path |-> "", kind |-> ""]

\* no fan-out is modelled
FanOff ==
    /\ fan_sent = 0
    /\ fan_pc = [p \in Paths |-> "idle"]
    /\ fan_next = [p \in Paths |-> 1]
    /\ fan_from = [p \in Paths |-> 0]
    /\ fan_wire = [p \in Paths |-> <<>>]
    /\ fan_writing = [p \in Paths |-> NoWrite]
    /\ fan_warns = [p \in Paths |-> 0]
    /\ fan_result = [p \in Paths |-> "none"]
    /\ fan_lagged = [p \in Paths |-> {}]
    /\ fan_torn = [p \in Paths |-> FALSE]
    /\ fan_arm = NoArm

\* a u64 as its ten highest bits and the 54 bits below them
U64(hi, lo) == [hi |-> hi, lo |-> lo]

NoValue == U64(-1, -1)

\* no settings are modelled
CfgOff ==
    /\ cfg_store = NoValue
    /\ cfg_form = 0
    /\ cfg_run = NoValue
    /\ cfg_threshold = NoValue
    /\ cfg_via = "none"
    /\ cfg_shown = 0

\* bound: the Clipboard frames of one session
MaxFrames == 3

FrameIds == 1..MaxFrames
NoClipboard == [ct |-> "", good |-> FALSE]
NoEvents == [session |-> 0, applier |-> 0]

\* no inbound path is modelled
RcvOff ==
    /\ rcv_sent = 0
    /\ rcv_frames = [i \in FrameIds |-> NoClipboard]
    /\ rcv_pc = "off"
    /\ rcv_hand = 0
    /\ rcv_queue = <<>>
    /\ rcv_open = FALSE
    /\ rcv_events = [i \in FrameIds |-> NoEvents]
    /\ rcv_done = [i \in FrameIds |-> "none"]

\* neither LAN mode nor the event bus nor the fan-out is in use
LanOff ==
    DiscOff /\ PeerOff /\ StartOff /\ BusOff /\ FanOff /\ CfgOff /\ RcvOff

\* ---- messages -----------------------------------------------------------
\* base64::STANDARD.encode of the PNG bytes, and its decoding followed by
\* image::load_from_memory (Err for anything that is not such a string).
B64Encode(i) ==
    CASE i = "p1" -> "b64:p1"
      [] i = "p2" -> "b64:p2"
      [] OTHER    -> "b64:p3"
B64Decodes(d) == \E i \in Images : B64Encode(i) = d
B64Decode(d) == CHOOSE i \in Images : B64Encode(i) = d

\* the session's DeviceId
DeviceId(s) == device_id[s]

ClipboardUpdate(ct, d, dev) ==
    [content_type |-> ct, data |-> d, sender_device_id |-> dev]
ClipboardBroadcastPayload(ct, d) == [content_type |-> ct, data |-> d]

\* ---- clipboard monitor --------------------------------------------------
\* (a comparison the wrong way round)
Throttled_Inverted(age) == age >= MIN_BROADCAST_INTERVAL

\* the rate limit fires: now - last_send_time < MIN_BROADCAST_INTERVAL
Throttled(age) == age < MIN_BROADCAST_INTERVAL

\* (the comparison with the last broadcast text forgotten)
TextChanged_NoDedup(text, last) == text # ""

TextChanged(text, last) == text # "" /\ text # last

\* (the threshold itself counted as too large)
Oversized_AtLimit(len, max_image_kb) == len >= max_image_kb * 1024

Oversized(len, max_image_kb) == len > max_image_kb * 1024

ImageChanged(hash, last) == hash # last

\* the branch one evaluation of a read takes
Branch(c, age, lt, lh) ==
    CASE c.kind = "none" -> "read_err"
      [] Throttled(age) -> "throttled"
      [] c.kind = "text" ->
            IF TextChanged(c.data, lt) THEN "text_emit" ELSE "text_skip"
      [] OTHER ->
            IF Oversized(PngLen(c.data), MaxImageKb) THEN "image_oversized"
            ELSE IF ImageChanged(PngHash(c.data), lh) THEN "image_emit"
            ELSE "image_skip"

Emits(b) == b \in {"text_emit", "image_emit"}

\* loop top: leave on cancellation, skip the cycle while the flag is set,
\* otherwise hand the read to the blocking pool
MonCheckFlag(s) ==
    /\ mon_pc[s] = "top"
    /\ IF cancel[s]
       THEN /\ mon_pc' = [mon_pc EXCEPT ![s] = "done"]
            /\ UNCHANGED sleep_left
       ELSE IF disable_flag[s]
       THEN /\ mon_pc' = [mon_pc EXCEPT ![s] = "sleep"]
            /\ sleep_left' = [sleep_left EXCEPT ![s] = MONITOR_INTERVAL]
       ELSE /\ mon_pc' = [mon_pc EXCEPT ![s] = "reading"]
            /\ UNCHANGED sleep_left
    /\ poll_applied' = [poll_applied EXCEPT ![s] =
                           /\ clip_src[machine[s]] = "applier"
                           /\ set_pc[s] = "idle"
                           /\ ~disable_flag[s]]
    /\ UNCHANGED <<emit_total, restVars, envVars, shared, setVars,
                   mon_read, read_src, last_text, last_image_hash, since_send,
                   outcome, echoed, sent_now, since_emit, run_val, run_fresh,
                   run_emits, run_warns>>

\* the blocking read_clipboard_content() returns
MonRead(s) ==
    /\ mon_pc[s] = "reading"
    /\ mon_pc' = [mon_pc EXCEPT ![s] = "eval"]
    /\ mon_read' = [mon_read EXCEPT ![s] = clipboard[machine[s]]]
    /\ read_src' = [read_src EXCEPT ![s] = clip_src[machine[s]]]
    /\ UNCHANGED <<emit_total, restVars, envVars, shared, setVars, poll_applied,
                   last_text, last_image_hash, since_send, sleep_left,
                   outcome, echoed, sent_now, since_emit, run_val, run_fresh,
                   run_emits, run_warns>>

\* the body of the loop after the read, up to the sleep
MonEvaluate(s) ==
    /\ mon_pc[s] = "eval"
    /\ LET c == mon_read[s]
           b == Branch(c, since_send[s], last_text[s], last_image_hash[s])
           upd == IF b = "text_emit"
                  THEN <<ClipboardUpdate(CONTENT_TYPE_TEXT, c.data, DeviceId(s))>>
                  ELSE IF b = "image_emit"
                  THEN <<ClipboardUpdate(CONTENT_TYPE_IMAGE_PNG,
                                         B64Encode(c.data), DeviceId(s))>>
                  ELSE <<>>
           newrun == b # "throttled" /\ c # run_val[s]
           inrun == b # "throttled"
           fresh == \/ c.kind = "text" /\ c.data # "" /\ c.data # last_text[s]
                    \/ /\ c.kind = "image"
                       /\ PngLen(c.data) <= MaxImageKb * 1024
                       /\ PngHash(c.data) # last_image_hash[s]
           e == IF Emits(b) THEN 1 ELSE 0
           w == IF b = "image_oversized" THEN 1 ELSE 0
       IN
       /\ outcome' = [outcome EXCEPT ![s] = b]
       /\ sent_now' = [sent_now EXCEPT ![s] = upd]
       /\ last_text' = [last_text EXCEPT ![s] =
                            IF b = "text_emit" THEN c.data ELSE @]
       /\ last_image_hash' = [last_image_hash EXCEPT ![s] =
                            IF b = "image_emit" THEN PngHash(c.data) ELSE @]
       /\ since_send' = [since_send EXCEPT ![s] = IF Emits(b) THEN 0 ELSE @]
       /\ since_emit' = [since_emit EXCEPT ![s] = IF Emits(b) THEN 0 ELSE @]
       /\ rx_updates' = [rx_updates EXCEPT ![s] =
                            IF subscribed[s] THEN @ \o upd ELSE @]
       /\ run_val' = [run_val EXCEPT ![s] = IF inrun THEN c ELSE @]
       /\ run_fresh' = [run_fresh EXCEPT ![s] = IF newrun THEN fresh ELSE @]
       /\ run_emits' = [run_emits EXCEPT ![s] =
                            IF newrun THEN e
                            ELSE IF inrun THEN Min(@ + e, MaxCount) ELSE @]
       /\ run_warns' = [run_warns EXCEPT ![s] =
                            IF newrun THEN w
                            ELSE IF inrun THEN Min(@ + w, MaxCount) ELSE @]
       /\ echoed' = [echoed EXCEPT ![s] =
                            Emits(b) /\ poll_applied[s] /\ read_src[s] = "applier"]
    /\ mon_pc' = [mon_pc EXCEPT ![s] = "sleep"]
    /\ sleep_left' = [sleep_left EXCEPT ![s] = MONITOR_INTERVAL]
    /\ read_src' = [read_src EXCEPT ![s] = "user"]
    /\ poll_applied' = [poll_applied EXCEPT ![s] = FALSE]
    /\ UNCHANGED <<restVars, envVars, disable_flag, cancel, subscribed, setVars, mon_read>>

\* sleep(MONITOR_INTERVAL) has elapsed
MonWake(s) ==
    /\ mon_pc[s] = "sleep"
    /\ sleep_left[s] = 0
    /\ mon_pc' = [mon_pc EXCEPT ![s] = "top"]
    /\ UNCHANGED <<emit_total, restVars, envVars, shared, setVars, poll_applied,
                   mon_read, read_src, last_text, last_image_hash, since_send,
                   sleep_left, outcome, echoed, sent_now, since_emit, run_val,
                   run_fresh, run_emits, run_warns>>

\* ---- clipboard applier --------------------------------------------------
\* what a payload puts on the clipboard
PayloadContent(p) ==
    IF p.content_type = CONTENT_TYPE_TEXT THEN Txt(p.data)
    ELSE Img(B64Decode(p.data))

\* rx.recv() yields a payload; set_text / set_image_from_base64 run up to
\* the spawn_blocking of the OS write
SetRecv(s) ==
    /\ set_pc[s] = "idle"
    /\ rx_in[s] # <<>>
    /\ LET p == Head(rx_in[s]) IN
       /\ rx_in' = [rx_in EXCEPT ![s] = Tail(@)]
       /\ set_payload' = [set_payload EXCEPT ![s] = p]
       /\ IF \/ p.content_type = CONTENT_TYPE_TEXT
             \/ p.content_type = CONTENT_TYPE_IMAGE_PNG /\ B64Decodes(p.data)
          THEN /\ disable_flag' = [disable_flag EXCEPT ![s] = TRUE]
               /\ set_pc' = [set_pc EXCEPT ![s] = "writing"]
               /\ set_result' = [set_result EXCEPT ![s] = "pending"]
          ELSE /\ UNCHANGED <<disable_flag, set_pc>>
               /\ set_result' = [set_result EXCEPT ![s] =
                     IF p.content_type = CONTENT_TYPE_IMAGE_PNG
                     THEN "decode_err" ELSE "unknown_type"]
    /\ UNCHANGED <<emit_total, restVars, envVars, cancel, subscribed, rx_updates, monVars>>

\* the blocking closure: Clipboard::new() and set_text / set_image
\* (ok: whether the OS accepts the write)
SetWrite(s, ok) ==
    /\ set_pc[s] = "writing"
    /\ set_pc' = [set_pc EXCEPT ![s] = "written"]
    /\ set_result' = [set_result EXCEPT ![s] = IF ok THEN "ok" ELSE "write_err"]
    /\ IF ok
       THEN /\ clipboard' = [clipboard EXCEPT ![machine[s]] =
                                PayloadContent(set_payload[s])]
            /\ clip_src' = [clip_src EXCEPT ![machine[s]] = "applier"]
       ELSE UNCHANGED <<clipboard, clip_src>>
    /\ UNCHANGED <<emit_total, restVars, fixedVars, shared, monVars, rx_in, set_payload>>

\* (the flag is cleared only after a successful write)
ClearedFlag_OnSuccess(result) == result # "ok"

\* disable_flag.store(false) after the blocking task, whatever its result
ClearedFlag(result) == FALSE

\* the blocking task has returned: clear the flag, report the result
SetClear(s) ==
    /\ set_pc[s] = "written"
    /\ disable_flag' = [disable_flag EXCEPT ![s] = ClearedFlag(set_result[s])]
    /\ set_pc' = [set_pc EXCEPT ![s] = "idle"]
    /\ UNCHANGED <<emit_total, restVars, envVars, cancel, subscribed, rx_updates, monVars,
                   rx_in, set_payload, set_result>>

\* the blocking closure panics: spawn_blocking yields a JoinError (landed:
\* whether the OS clipboard had taken the content by then)
SetJoinError(s, landed) ==
    /\ set_pc[s] = "writing"
    /\ set_pc' = [set_pc EXCEPT ![s] = "written"]
    /\ set_result' = [set_result EXCEPT ![s] = "join_err"]
    /\ IF landed
       THEN /\ clipboard' = [clipboard EXCEPT ![machine[s]] =
                                PayloadContent(set_payload[s])]
            /\ clip_src' = [clip_src EXCEPT ![machine[s]] = "applier"]
       ELSE UNCHANGED <<clipboard, clip_src>>
    /\ UNCHANGED <<emit_total, restVars, fixedVars, shared, monVars, rx_in, set_payload>>

\* ---- environment --------------------------------------------------------
\* the user copies something on machine m
UserSet(m, c) ==
    /\ clipboard' = [clipboard EXCEPT ![m] = c]
    /\ clip_src' = [clip_src EXCEPT ![m] = "user"]
    /\ UNCHANGED <<emit_total, restVars, fixedVars, shared, monVars, setVars>>

\* payloads a transport may forward to the applier queue
Payloads ==
    { ClipboardBroadcastPayload(CONTENT_TYPE_TEXT, "a"),
      ClipboardBroadcastPayload("other", "a") }

\* a transport forwards an inbound payload: tx_in.send(payload)
Deliver(s, p) ==
    /\ Len(rx_in[s]) < MaxInbound
    /\ rx_in' = [rx_in EXCEPT ![s] = Append(@, p)]
    /\ UNCHANGED <<emit_total, restVars, envVars, shared, monVars, set_pc, set_payload, set_result>>

\* 100 ms pass
Tick ==
    /\ since_send' = [s \in Sessions |-> Min(since_send[s] + 1, MIN_BROADCAST_INTERVAL)]
    /\ since_emit' = [s \in Sessions |-> Min(since_emit[s] + 1, MIN_BROADCAST_INTERVAL)]
    /\ sleep_left' = [s \in Sessions |-> Max(sleep_left[s] - 1, 0)]
    /\ UNCHANGED <<emit_total, restVars, envVars, shared, setVars, mon_pc, mon_read, read_src,
                   poll_applied, last_text,
                   last_image_hash, outcome, echoed, sent_now, run_val, run_fresh,
                   run_emits, run_warns>>

\* ---- commands and options -----------------------------------------------
\* config directories a StartOptions may name; loading dirBad fails
Options == {"dirA", "dirBad"}
\* a second loadable directory, for command sequences that change options:
\* its config has no token and no username/password
MoreOptions == Options \cup {"dirNoCred"}
\* Config::load_from_dir and Url::parse both succeed
ConfigOk(o) == o # "dirBad"
\* cfg.token is Some, or cfg.username and cfg.password both are
HasCredentials(o) == o # "dirNoCred"
NoOptions == "none"
NoSession == "none"

Start(o) == [type |-> "Start", options |-> o]
Reload(o) == [type |-> "Reload", options |-> o]
Pause == [type |-> "Pause", options |-> NoOptions]
Resume == [type |-> "Resume", options |-> NoOptions]
Shutdown == [type |-> "Shutdown", options |-> NoOptions]
NoCommand == [type |-> "none", options |-> NoOptions]
RuntimeCommand ==
    {Start(o) : o \in Options} \cup {Reload(o) : o \in Options}
        \cup {Pause, Resume, Shutdown}

Queued(c, n) == [cmd |-> c, ticket |-> n]

\* the last Connection event on the event channel, with its sender and the
\* Error event sent right before it, if any
NoError == [what |-> "none", message |-> ""]
ConnectionEvent(state, by) == [state |-> state, by |-> by, error |-> NoError]
ErrorThenConnection(err, state, by) == [state |-> state, by |-> by, error |-> err]

\* what stream.next() can yield as the first reply after the auth request:
\* a text frame (JSON of the wrapped shape {type, payload: {success,
\* message}}, of the flat shape {success, message}, with a payload that is
\* no AuthResponsePayload, of neither shape, or no JSON), another frame, a
\* read error, or the end of the stream
TextReply(shape, success, message) ==
    [frame |-> "text", shape |-> shape, success |-> success, message |-> message]
OtherReply(frame) ==
    [frame |-> frame, shape |-> "none", success |-> "none", message |-> ""]
AuthReplies ==
    { TextReply("wrapped", "true", "welcome"),
      TextReply("wrapped", "false", "bad creds"),
      TextReply("wrapped", "malformed", ""),
      TextReply("flat", "true", "welcome"),
      TextReply("flat", "false", "bad creds"),
      TextReply("flat", "not_bool", "bad creds"),
      TextReply("neither", "none", ""),
      TextReply("invalid", "none", ""),
      OtherReply("binary"), OtherReply("error"), OtherReply("end") }
\* the replies of a server that answers in the wrapped shape
BasicReplies ==
    { TextReply("wrapped", "true", "welcome"),
      TextReply("wrapped", "false", "bad creds") }

\* (a reply without success = false is taken for a success)
AuthError_Lenient(r) ==
    IF r.success = "false"
    THEN [what |-> "auth failed", message |-> r.message]
    ELSE NoError

\* authenticate_stream on the reply: the error it returns, NoError for Ok
AuthError(r) ==
    CASE r.frame = "end"    -> [what |-> "no reply", message |-> ""]
      [] r.frame = "error"  -> [what |-> "read failed", message |-> ""]
      [] r.frame = "binary" -> [what |-> "wrong frame type", message |-> ""]
      [] r.shape = "invalid" -> [what |-> "bad format", message |-> ""]
      [] r.shape = "neither" -> [what |-> "unrecognized", message |-> ""]
      [] r.shape = "wrapped" /\ r.success = "malformed" ->
            [what |-> "parse failed", message |-> ""]
      [] r.shape \in {"wrapped", "flat"} /\ r.success = "true" -> NoError
      [] OTHER -> [what |-> "auth failed", message |-> r.message]
\* the error of authenticate_stream when the Config has no credentials
MissingCredentials == [what |-> "missing credentials", message |-> ""]

\* the supervisor after Start(dirA) has spawned a task set
Started ==
    /\ commands = <<>>
    /\ sup_pc = "recv"
    /\ active = "alpha"
    /\ awaiting = NoSession
    /\ last_options = "dirA"
    /\ paused = FALSE
    /\ bus_last = ConnectionEvent("Connecting", "supervisor")
    /\ enq_count = 1
    /\ handled_count = 1
    /\ last_taken = Queued(Start("dirA"), 0)
    /\ last_given = "dirA"
    /\ given_noop = FALSE
    /\ sup_error = FALSE
    /\ spawned_from = [s \in Sessions |-> "dirA"]

\* ---- one session: monitor and applier over one clipboard ---------------
NoRun == [kind |-> "start", data |-> ""]
NoPayload == ClipboardBroadcastPayload("", "")

\* the state of a session that start_tasks has just created (s in Run), and
\* of one that does not exist
InitSessions(Run) ==
    /\ device_id = [s \in Sessions |->
                      IF s \notin Run THEN 0 ELSE IF s = "alpha" THEN 1 ELSE 2]
    /\ zombie = NoSession
    /\ clip_src = [m \in Machines |-> "user"]
    /\ disable_flag = [s \in Sessions |-> FALSE]
    /\ cancel = [s \in Sessions |-> FALSE]
    /\ rx_updates = [s \in Sessions |-> <<>>]
    /\ mon_pc = [s \in Sessions |-> IF s \in Run THEN "top" ELSE "done"]
    /\ mon_read = [s \in Sessions |-> NoContent]
    /\ read_src = [s \in Sessions |-> "user"]
    /\ poll_applied = [s \in Sessions |-> FALSE]
    /\ last_image_hash = [s \in Sessions |-> "none"]
    /\ since_send = [s \in Sessions |-> IF s \in Run THEN 0 ELSE MIN_BROADCAST_INTERVAL]
    /\ since_emit = [s \in Sessions |-> MIN_BROADCAST_INTERVAL]
    /\ sleep_left = [s \in Sessions |-> 0]
    /\ outcome = [s \in Sessions |-> "none"]
    /\ echoed = [s \in Sessions |-> FALSE]
    /\ sent_now = [s \in Sessions |-> <<>>]
    /\ run_val = [s \in Sessions |-> NoRun]
    /\ run_fresh = [s \in Sessions |-> FALSE]
    /\ run_emits = [s \in Sessions |-> 0]
    /\ run_warns = [s \in Sessions |-> 0]
    /\ rx_in = [s \in Sessions |-> <<>>]
    /\ set_pc = [s \in Sessions |-> IF s \in Run THEN "idle" ELSE "done"]
    /\ set_payload = [s \in Sessions |-> NoPayload]
    /\ set_result = [s \in Sessions |-> "none"]
    /\ emit_total = [s \in Sessions |-> 0]
    /\ wire_up = [s \in Sessions |-> <<>>]
    /\ wire_down = [s \in Sessions |-> <<>>]
    /\ conn_timer = [s \in Sessions |-> 0]

InitMon ==
    /\ LanOff
    /\ InitSessions({"alpha"})
    /\ machine = [s \in Sessions |-> IF s = "alpha" THEN "m1" ELSE "m2"]
    /\ Started
    /\ last_text = [s \in Sessions |-> ""]
    /\ subscribed = [s \in Sessions |-> FALSE]
    /\ conn_pc = [s \in Sessions |-> "done"]
    /\ \E c \in Contents :
         clipboard = [m \in Machines |-> IF m = "m1" THEN c ELSE NoContent]

NextMon ==
    \/ MonCheckFlag("alpha")
    \/ MonRead("alpha")
    \/ MonEvaluate("alpha") /\ UNCHANGED emit_total
    \/ MonWake("alpha")
    \/ SetRecv("alpha")
    \/ \E ok \in BOOLEAN : SetWrite("alpha", ok)
    \/ SetClear("alpha")
    \/ \E c \in UserContents : UserSet("m1", c)
    \/ \E p \in Payloads : Deliver("alpha", p)
    \/ Tick

SpecMon == InitMon /\ [][NextMon]_vars

\* ---- server connection: steady state -----------------------------------
\* capacity of the applier queue
INBOUND_CAPACITY == 100

\* monitor cycle that also counts its tx.send calls
MonEvaluateCounted(s) ==
    /\ MonEvaluate(s)
    /\ emit_total' = [emit_total EXCEPT ![s] = Min(@ + Len(sent_now'[s]), MaxCount)]

\* rx_updates.recv() yields an update: serialize and write it as a text frame
ConnSend(s) ==
    /\ conn_pc[s] = "steady"
    /\ rx_updates[s] # <<>>
    /\ rx_updates' = [rx_updates EXCEPT ![s] = Tail(@)]
    /\ wire_up' = [wire_up EXCEPT ![s] = Append(@, Head(rx_updates[s]))]
    /\ UNCHANGED <<envVars, disable_flag, cancel, subscribed, monVars, setVars,
                   emit_total, conn_pc, conn_timer, wire_down, supVars>>

\* read.next() yields a text frame that parses as a broadcast: its payload
\* (content_type and data only) goes to the applier queue
ConnRecv(s) ==
    /\ conn_pc[s] = "steady"
    /\ wire_down[s] # <<>>
    /\ Len(rx_in[s]) < INBOUND_CAPACITY
    /\ LET f == Head(wire_down[s]) IN
         rx_in' = [rx_in EXCEPT ![s] =
                     Append(@, ClipboardBroadcastPayload(f.content_type, f.data))]
    /\ wire_down' = [wire_down EXCEPT ![s] = Tail(@)]
    /\ UNCHANGED <<envVars, shared, monVars, set_pc, set_payload, set_result,
                   emit_total, conn_pc, conn_timer, wire_up, supVars>>

\* the relay passes a frame on to every other connected session, never back
\* to its sender
RelayForward(s) ==
    /\ wire_up[s] # <<>>
    /\ wire_up' = [wire_up EXCEPT ![s] = Tail(@)]
    /\ wire_down' = [t \in Sessions |->
                        IF t # s /\ conn_pc[t] = "steady"
                        THEN Append(wire_down[t], Head(wire_up[s]))
                        ELSE wire_down[t]]
    /\ UNCHANGED <<envVars, shared, monVars, setVars, emit_total, conn_pc, conn_timer,
                   supVars>>

\* ---- scenario S1: two connected agents, one user change ----------------
InitS1 ==
    /\ LanOff
    /\ InitSessions(Sessions)
    /\ machine = [s \in Sessions |-> IF s = "alpha" THEN "m1" ELSE "m2"]
    /\ Started
    /\ subscribed = [s \in Sessions |-> TRUE]
    /\ conn_pc = [s \in Sessions |-> "steady"]
    \* each clipboard is empty, or holds an old text "b" that the session's
    \* monitor has already broadcast
    /\ clipboard \in [Machines -> {NoContent, Txt(""), Txt("b")}]
    /\ last_text = [s \in Sessions |->
                      IF clipboard[machine[s]] = Txt("b") THEN "b" ELSE ""]

\* the user copies "a" on alpha's machine, once
S1UserSet ==
    /\ clipboard["m1"] # Txt("a")
    /\ UserSet("m1", Txt("a"))

S1Monitor(s) ==
    \/ MonCheckFlag(s)
    \/ MonRead(s)
    \/ MonEvaluateCounted(s)
    \/ MonWake(s)
S1Applier(s) ==
    \/ SetRecv(s)
    \/ SetWrite(s, TRUE)
    \/ SetClear(s)
S1Connection(s) ==
    \/ ConnSend(s)
    \/ ConnRecv(s)

NextS1 ==
    \/ S1UserSet
    \/ Tick
    \/ \E s \in Sessions :
         S1Monitor(s) \/ S1Applier(s) \/ S1Connection(s) \/ RelayForward(s)

\* every task and the relay keep being scheduled, and time passes
FairS1 ==
    /\ WF_vars(Tick)
    /\ \A s \in Sessions :
         /\ WF_vars(S1Monitor(s))
         /\ WF_vars(S1Applier(s))
         /\ WF_vars(S1Connection(s))
         /\ WF_vars(RelayForward(s))

SpecS1 == InitS1 /\ [][NextS1]_vars /\ FairS1

\* ---- server connection task: run_connection_loop ------------------------
RECONNECT_DELAY == 5
AUTH_RETRY_DELAY == 3

\* leaving the steady-state arm drops the socket halves and rx_updates
ConnDropSession(s) ==
    /\ subscribed' = [subscribed EXCEPT ![s] = FALSE]
    /\ rx_updates' = [rx_updates EXCEPT ![s] = <<>>]
    /\ wire_up' = [wire_up EXCEPT ![s] = <<>>]
    /\ wire_down' = [wire_down EXCEPT ![s] = <<>>]

\* the end of either arm of the match on the connection: Disconnected
ConnEndSession(s) ==
    /\ conn_pc' = [conn_pc EXCEPT ![s] = "after_match"]
    /\ bus_last' = ConnectionEvent("Disconnected", "connection")
    /\ UNCHANGED conn_timer

\* (the check after the match is missing)
LeavesLoop_Never(cancelled) == FALSE

\* if cancel.is_cancelled() { break; }
LeavesLoop(cancelled) == cancelled

\* after the match on the connection: leave the loop if cancelled, else
\* announce the reconnect and start the 5 s wait
ConnAfterSession(s) ==
    /\ conn_pc[s] = "after_match"
    /\ IF LeavesLoop(cancel[s])
       THEN /\ conn_pc' = [conn_pc EXCEPT ![s] = "done"]
            /\ bus_last' = ConnectionEvent("Paused", "connection")
            /\ UNCHANGED conn_timer
       ELSE /\ conn_pc' = [conn_pc EXCEPT ![s] = "reconnect_wait"]
            /\ conn_timer' = [conn_timer EXCEPT ![s] = RECONNECT_DELAY]
            /\ bus_last' = ConnectionEvent("Reconnecting", "connection")
    /\ UNCHANGED <<envVars, shared, monVars, setVars, emit_total,
                   wire_up, wire_down, commands, sup_pc, active, awaiting,
                   last_options, paused, ghostVars, idVars>>

\* loop head: while !cancel.is_cancelled(); otherwise announce Connecting
\* and start connect_async
ConnTop(s) ==
    /\ conn_pc[s] = "top"
    /\ IF cancel[s]
       THEN /\ conn_pc' = [conn_pc EXCEPT ![s] = "done"]
            /\ bus_last' = ConnectionEvent("Paused", "connection")
       ELSE /\ conn_pc' = [conn_pc EXCEPT ![s] = "connecting"]
            /\ bus_last' = ConnectionEvent("Connecting", "connection")
    /\ UNCHANGED <<envVars, shared, monVars, setVars, emit_total, conn_timer,
                   wire_up, wire_down, commands, sup_pc, active, awaiting,
                   last_options, paused, ghostVars, idVars>>

\* authenticate_stream has returned Err(err): Error and Disconnected are
\* published, the loop is left if cancelled (Paused follows), else the 3 s
\* sleep starts
ConnAuthFailed(s, err) ==
    IF cancel[s]
    THEN /\ conn_pc' = [conn_pc EXCEPT ![s] = "done"]
         /\ bus_last' = ConnectionEvent("Paused", "connection")
         /\ UNCHANGED conn_timer
    ELSE /\ conn_pc' = [conn_pc EXCEPT ![s] = "auth_fail_sleep"]
         /\ conn_timer' = [conn_timer EXCEPT ![s] = AUTH_RETRY_DELAY]
         /\ bus_last' = ErrorThenConnection(err, "Disconnected", "connection")

\* connect_async returns (ok: the TCP/TLS/WebSocket handshake succeeded); on
\* success Connected is published and authenticate_stream builds the auth
\* request: without credentials it fails there, else the request is sent
\* and the reply awaited
ConnConnected(s, ok) ==
    /\ conn_pc[s] = "connecting"
    /\ IF ok
       THEN IF HasCredentials(spawned_from[s])
            THEN /\ conn_pc' = [conn_pc EXCEPT ![s] = "auth_wait"]
                 /\ bus_last' = ConnectionEvent("Connected", "connection")
                 /\ UNCHANGED conn_timer
            ELSE ConnAuthFailed(s, MissingCredentials)
       ELSE ConnEndSession(s)
    /\ UNCHANGED <<envVars, shared, monVars, setVars, emit_total,
                   wire_up, wire_down, commands, sup_pc, active, awaiting,
                   last_options, paused, ghostVars, idVars>>

\* the server's first reply after the auth request arrives (or the stream
\* ends or fails)
ServerReply(s, r) ==
    /\ conn_pc[s] = "auth_wait"
    /\ wire_down[s] = <<>>
    /\ wire_down' = [wire_down EXCEPT ![s] = <<r>>]
    /\ UNCHANGED <<envVars, shared, monVars, setVars, emit_total, conn_pc,
                   conn_timer, wire_up, supVars>>

\* stream.next() in authenticate_stream yields the reply: on success the
\* socket is split and the updates subscribed to; on failure the socket is
\* dropped
ConnAuthReply(s) ==
    /\ conn_pc[s] = "auth_wait"
    /\ wire_down[s] # <<>>
    /\ LET err == AuthError(Head(wire_down[s])) IN
         IF err = NoError
         THEN /\ conn_pc' = [conn_pc EXCEPT ![s] = "steady"]
              /\ subscribed' = [subscribed EXCEPT ![s] = TRUE]
              /\ rx_updates' = [rx_updates EXCEPT ![s] = <<>>]
              /\ wire_down' = [wire_down EXCEPT ![s] = Tail(@)]
              /\ UNCHANGED <<conn_timer, bus_last>>
         ELSE /\ ConnAuthFailed(s, err)
              /\ wire_down' = [wire_down EXCEPT ![s] = <<>>]
              /\ UNCHANGED <<subscribed, rx_updates>>
    /\ UNCHANGED <<envVars, disable_flag, cancel, monVars, setVars, emit_total,
                   wire_up, commands, sup_pc, active, awaiting,
                   last_options, paused, ghostVars, idVars>>

\* sleep(3 s) after the auth failure is over: continue
ConnAuthSleepDone(s) ==
    /\ conn_pc[s] = "auth_fail_sleep"
    /\ conn_timer[s] = 0
    /\ conn_pc' = [conn_pc EXCEPT ![s] = "top"]
    /\ UNCHANGED <<envVars, shared, monVars, setVars, emit_total, conn_timer,
                   wire_up, wire_down, supVars>>

\* steady-state select, branch cancel.cancelled(): break, Disconnected
ConnCancelled(s) ==
    /\ conn_pc[s] = "steady"
    /\ cancel[s]
    /\ ConnDropSession(s)
    /\ ConnEndSession(s)
    /\ UNCHANGED <<envVars, disable_flag, cancel, monVars, setVars, emit_total,
                   commands, sup_pc, active, awaiting,
                   last_options, paused, ghostVars, idVars>>

\* steady-state select, read.next() yields None or an error, or the write
\* fails: break, Disconnected
ConnClosed(s) ==
    /\ conn_pc[s] = "steady"
    /\ ConnDropSession(s)
    /\ ConnEndSession(s)
    /\ UNCHANGED <<envVars, disable_flag, cancel, monVars, setVars, emit_total,
                   commands, sup_pc, active, awaiting,
                   last_options, paused, ghostVars, idVars>>

\* reconnect select, branch cancel.cancelled(): break
ConnReconnectCancelled(s) ==
    /\ conn_pc[s] = "reconnect_wait"
    /\ cancel[s]
    /\ conn_pc' = [conn_pc EXCEPT ![s] = "done"]
    /\ bus_last' = ConnectionEvent("Paused", "connection")
    /\ UNCHANGED <<envVars, shared, monVars, setVars, emit_total, conn_timer,
                   wire_up, wire_down, commands, sup_pc, active, awaiting,
                   last_options, paused, ghostVars, idVars>>

\* reconnect select, branch sleep(reconnect_delay): next iteration
ConnReconnectDone(s) ==
    /\ conn_pc[s] = "reconnect_wait"
    /\ conn_timer[s] = 0
    /\ conn_pc' = [conn_pc EXCEPT ![s] = "top"]
    /\ UNCHANGED <<envVars, shared, monVars, setVars, emit_total, conn_timer,
                   wire_up, wire_down, supVars>>

\* the server sends the session a broadcast frame with sender id dev (here:
\* one frame per session, while the applier has not handled any)
ServerSendFrom(s, p, dev) ==
    /\ conn_pc[s] = "steady"
    /\ wire_down[s] = <<>>
    /\ rx_in[s] = <<>>
    /\ set_result[s] = "none"
    /\ wire_down' = [wire_down EXCEPT ![s] =
                        <<ClipboardUpdate(p.content_type, p.data, dev)>>]
    /\ UNCHANGED <<envVars, shared, monVars, setVars, emit_total, conn_pc,
                   conn_timer, wire_up, supVars>>

\* a broadcast that comes from a device that is no session here (id 0)
ServerSend(s, p) == ServerSendFrom(s, p, 0)

\* a broadcast that carries the session's own device id
ServerEcho(s, p) == ServerSendFrom(s, p, DeviceId(s))

\* ---- cancellation branches of the monitor and the applier ---------------
\* the monitor's sleep select, branch cancel.cancelled()
MonCancelled(s) ==
    /\ mon_pc[s] = "sleep"
    /\ cancel[s]
    /\ mon_pc' = [mon_pc EXCEPT ![s] = "done"]
    /\ UNCHANGED <<emit_total, restVars, envVars, shared, setVars, poll_applied,
                   mon_read, read_src, last_text, last_image_hash, since_send,
                   sleep_left, outcome, echoed, sent_now, since_emit, run_val,
                   run_fresh, run_emits, run_warns>>

\* the applier's select, branch cancel.cancelled()
SetCancelled(s) ==
    /\ set_pc[s] = "idle"
    /\ cancel[s]
    /\ set_pc' = [set_pc EXCEPT ![s] = "done"]
    /\ UNCHANGED <<emit_total, restVars, envVars, shared, monVars, rx_in,
                   set_payload, set_result>>

\* rx.recv() yields None: the queue is empty and the connection task, which
\* owns every sender, has returned
SetClosed(s) ==
    /\ set_pc[s] = "idle"
    /\ rx_in[s] = <<>>
    /\ conn_pc[s] = "done"
    /\ set_pc' = [set_pc EXCEPT ![s] = "done"]
    /\ UNCHANGED <<emit_total, restVars, envVars, shared, monVars, rx_in,
                   set_payload, set_result>>

\* one second passes (the last poll of an aborted task is over long before)
TickSec ==
    /\ zombie = NoSession
    /\ since_send' = [s \in Sessions |-> MIN_BROADCAST_INTERVAL]
    /\ since_emit' = [s \in Sessions |-> MIN_BROADCAST_INTERVAL]
    /\ sleep_left' = [s \in Sessions |-> 0]
    /\ conn_timer' = [s \in Sessions |-> Max(conn_timer[s] - 1, 0)]
    /\ UNCHANGED <<emit_total, envVars, shared, setVars, mon_pc, mon_read, read_src,
                   poll_applied, last_text,
                   last_image_hash, outcome, echoed, sent_now, run_val, run_fresh,
                   run_emits, run_warns, conn_pc, wire_up, wire_down, supVars>>

\* ---- supervisor: RuntimeWorker::run -------------------------------------
\* commands the UI may still enqueue: MaxCmds in all
MaxCmds == 2
COMMAND_CAPACITY == 32

\* the slot of the next task set: not the one of a task set that is still
\* running out
SupSession == IF zombie = "alpha" THEN "beta" ELSE "alpha"

\* (the id of the task set before is taken again)
FreshUuid_Reused ==
    IF device_id[SupSession] = 0 THEN 1 ELSE device_id[SupSession]

\* Uuid::new_v4(): an id no task set on record has
FreshUuid == CHOOSE n \in 1..3 : \A s \in Sessions : device_id[s] # n

Finished(s) == mon_pc[s] = "done" /\ set_pc[s] = "done" /\ conn_pc[s] = "done"
Terminated(s) ==
    /\ mon_pc[s] \in {"done", "aborted"}
    /\ set_pc[s] \in {"done", "aborted"}
    /\ conn_pc[s] \in {"done", "aborted"}

\* (the oldest command is not the one taken)
NextCommand_Newest(q) == q[Len(q)]

\* commands.recv(): the oldest command of the queue
NextCommand(q) == Head(q)

\* (nothing is waited for)
Drained_NoWait(s) == TRUE

\* the three JoinHandles awaited by stop_tasks(false) have resolved
Drained(s) == Finished(s)

\* a handle method sends a command (refused once the loop has ended and
\* dropped the receiver)
UIEnqueue(c) ==
    /\ sup_pc # "ended"
    /\ enq_count < MaxCmds
    /\ Len(commands) < COMMAND_CAPACITY
    /\ commands' = Append(commands, Queued(c, enq_count))
    /\ enq_count' = enq_count + 1
    /\ UNCHANGED <<envVars, taskVars, sup_pc, active, awaiting, last_options,
                   paused, bus_last, handled_count, last_taken, last_given,
                   given_noop, sup_error, spawned_from, idVars>>

\* the loop takes command c
Take(c) ==
    /\ sup_pc = "recv"
    /\ commands # <<>>
    /\ NextCommand(commands).cmd = c
    /\ commands' = Tail(commands)
    /\ handled_count' = handled_count + 1
    /\ last_taken' = NextCommand(commands)
    /\ last_given' = IF c.type \in {"Start", "Reload"} THEN c.options ELSE last_given
    /\ given_noop' = IF c.type = "Start" THEN active # NoSession
                     ELSE IF c.type = "Reload" THEN FALSE ELSE given_noop
    /\ UNCHANGED enq_count

\* tokio::spawn of monitor, applier and connection with a fresh flag, fresh
\* channels and a fresh token
SpawnTasks(s) ==
    /\ device_id' = [device_id EXCEPT ![s] = FreshUuid]
    /\ disable_flag' = [disable_flag EXCEPT ![s] = FALSE]
    /\ cancel' = [cancel EXCEPT ![s] = FALSE]
    /\ subscribed' = [subscribed EXCEPT ![s] = FALSE]
    /\ rx_updates' = [rx_updates EXCEPT ![s] = <<>>]
    /\ mon_pc' = [mon_pc EXCEPT ![s] = "top"]
    /\ mon_read' = [mon_read EXCEPT ![s] = NoContent]
    /\ read_src' = [read_src EXCEPT ![s] = "user"]
    /\ poll_applied' = [poll_applied EXCEPT ![s] = FALSE]
    /\ last_text' = [last_text EXCEPT ![s] = ""]
    /\ last_image_hash' = [last_image_hash EXCEPT ![s] = "none"]
    /\ since_send' = [since_send EXCEPT ![s] = 0]
    /\ since_emit' = [since_emit EXCEPT ![s] = MIN_BROADCAST_INTERVAL]
    /\ sleep_left' = [sleep_left EXCEPT ![s] = 0]
    /\ outcome' = [outcome EXCEPT ![s] = "none"]
    /\ echoed' = [echoed EXCEPT ![s] = FALSE]
    /\ sent_now' = [sent_now EXCEPT ![s] = <<>>]
    /\ run_val' = [run_val EXCEPT ![s] = NoRun]
    /\ run_fresh' = [run_fresh EXCEPT ![s] = FALSE]
    /\ run_emits' = [run_emits EXCEPT ![s] = 0]
    /\ run_warns' = [run_warns EXCEPT ![s] = 0]
    /\ rx_in' = [rx_in EXCEPT ![s] = <<>>]
    /\ set_pc' = [set_pc EXCEPT ![s] = "idle"]
    /\ set_payload' = [set_payload EXCEPT ![s] = NoPayload]
    /\ set_result' = [set_result EXCEPT ![s] = "none"]
    /\ emit_total' = [emit_total EXCEPT ![s] = 0]
    /\ conn_pc' = [conn_pc EXCEPT ![s] = "top"]
    /\ conn_timer' = [conn_timer EXCEPT ![s] = 0]
    /\ wire_up' = [wire_up EXCEPT ![s] = <<>>]
    /\ wire_down' = [wire_down EXCEPT ![s] = <<>>]

Aborted(pc) == IF pc = "done" THEN "done" ELSE "aborted"

\* cancel.cancel() wakes a connection task that awaits cancel.cancelled()
WokenByCancel(s) == conn_pc[s] \in {"steady", "reconnect_wait"}

\* the connection task of t is dropped in the step
Dropped(t, s, linger) == (t = s /\ ~linger) \/ (t # s /\ t = zombie)

\* stop_tasks(true) on the task set s: cancel, then abort the three tasks.
\* A task that is not being polled is dropped where it stands, and with it
\* its locals, channels and socket; one that is being polled runs on until
\* it yields (linger: the connection task, woken by the cancel on another
\* worker thread, is; what a monitor or an applier
\* does in its last poll stays within the dropped task set, but for the
\* blocking write). A task set that was still running out is gone by now.
AbortTasks(s, linger) ==
    /\ cancel' = [cancel EXCEPT ![s] = TRUE]
    /\ zombie' = IF linger THEN s ELSE NoSession
    /\ conn_pc' = [t \in Sessions |->
                     IF Dropped(t, s, linger) THEN Aborted(conn_pc[t]) ELSE conn_pc[t]]
    /\ conn_timer' = [t \in Sessions |->
                     IF Dropped(t, s, linger) THEN 0 ELSE conn_timer[t]]
    /\ subscribed' = [t \in Sessions |->
                     IF Dropped(t, s, linger) THEN FALSE ELSE subscribed[t]]
    /\ rx_updates' = [t \in Sessions |->
                     IF Dropped(t, s, linger) THEN <<>> ELSE rx_updates[t]]
    /\ wire_up' = [t \in Sessions |->
                     IF Dropped(t, s, linger) THEN <<>> ELSE wire_up[t]]
    /\ wire_down' = [t \in Sessions |->
                     IF Dropped(t, s, linger) THEN <<>> ELSE wire_down[t]]
    /\ mon_pc' = [mon_pc EXCEPT ![s] = Aborted(@)]
    /\ set_pc' = [set_pc EXCEPT ![s] = Aborted(@)]
    /\ rx_in' = [rx_in EXCEPT ![s] = <<>>]
    /\ disable_flag' = [disable_flag EXCEPT ![s] = FALSE]
    /\ mon_read' = [mon_read EXCEPT ![s] = NoContent]
    /\ read_src' = [read_src EXCEPT ![s] = "user"]
    /\ poll_applied' = [poll_applied EXCEPT ![s] = FALSE]
    /\ last_text' = [last_text EXCEPT ![s] = ""]
    /\ last_image_hash' = [last_image_hash EXCEPT ![s] = "none"]
    /\ since_send' = [since_send EXCEPT ![s] = MIN_BROADCAST_INTERVAL]
    /\ since_emit' = [since_emit EXCEPT ![s] = MIN_BROADCAST_INTERVAL]
    /\ sleep_left' = [sleep_left EXCEPT ![s] = 0]
    /\ outcome' = [outcome EXCEPT ![s] = "none"]
    /\ echoed' = [echoed EXCEPT ![s] = FALSE]
    /\ sent_now' = [sent_now EXCEPT ![s] = <<>>]
    /\ run_val' = [run_val EXCEPT ![s] = NoRun]
    /\ run_fresh' = [run_fresh EXCEPT ![s] = FALSE]
    /\ run_emits' = [run_emits EXCEPT ![s] = 0]
    /\ run_warns' = [run_warns EXCEPT ![s] = 0]
    /\ set_payload' = [set_payload EXCEPT ![s] = NoPayload]
    /\ set_result' = [set_result EXCEPT ![s] = "none"]
    /\ emit_total' = [emit_total EXCEPT ![s] = 0]
    /\ UNCHANGED device_id

\* the runtime drops a connection task that was running out
AbortLands ==
    /\ zombie # NoSession
    /\ zombie' = NoSession
    /\ conn_pc' = [conn_pc EXCEPT ![zombie] = Aborted(@)]
    /\ conn_timer' = [conn_timer EXCEPT ![zombie] = 0]
    /\ subscribed' = [subscribed EXCEPT ![zombie] = FALSE]
    /\ rx_updates' = [rx_updates EXCEPT ![zombie] = <<>>]
    /\ wire_up' = [wire_up EXCEPT ![zombie] = <<>>]
    /\ wire_down' = [wire_down EXCEPT ![zombie] = <<>>]
    /\ UNCHANGED <<envVars, disable_flag, cancel, monVars, setVars, emit_total,
                   commands, sup_pc, active, awaiting, last_options, paused,
                   bus_last, ghostVars, device_id>>

\* a blocking clipboard write that the aborted applier had spawned still
\* runs to its end
AbortedWriteLands ==
    IF active # NoSession /\ set_pc[active] = "writing"
    THEN /\ clipboard' = [clipboard EXCEPT ![machine[active]] =
                             PayloadContent(set_payload[active])]
         /\ clip_src' = [clip_src EXCEPT ![machine[active]] = "applier"]
         /\ UNCHANGED fixedVars
    ELSE UNCHANGED envVars

\* start_tasks(o) when no task set is active; its Err has the caller
\* publish an Error
StartTasks(o) ==
    /\ paused' = FALSE
    /\ sup_error' = ~ConfigOk(o)
    /\ IF ConfigOk(o)
       THEN /\ SpawnTasks(SupSession)
            /\ active' = SupSession
            /\ spawned_from' = [spawned_from EXCEPT ![SupSession] = o]
            /\ bus_last' = ConnectionEvent("Connecting", "supervisor")
            /\ UNCHANGED zombie
       ELSE /\ active' = NoSession
            /\ UNCHANGED <<taskVars, bus_last, spawned_from, idVars>>

\* (options are remembered only when the Start spawns)
RememberedAfterStart_IfSpawned(o, old, running) == IF running THEN old ELSE o

\* self.last_options = Some(options) comes before start_tasks, whatever
\* start_tasks then does
RememberedAfterStart(o, old, running) == o

\* Start(options): remember the options; start_tasks (which returns at once
\* when a task set is active)
SupStart(o) ==
    /\ Take(Start(o))
    /\ last_options' = RememberedAfterStart(o, last_options, active # NoSession)
    /\ IF active # NoSession
       THEN /\ sup_error' = FALSE
            /\ UNCHANGED <<taskVars, active, paused, bus_last, spawned_from, idVars>>
       ELSE StartTasks(o)
    /\ UNCHANGED <<envVars, sup_pc, awaiting>>

\* Pause: stop_tasks(false) takes the task set, fires its token and starts
\* awaiting the three handles; with no task set, Paused is published at once
SupPause ==
    /\ Take(Pause)
    /\ paused' = TRUE
    /\ IF active # NoSession
       THEN /\ cancel' = [cancel EXCEPT ![active] = TRUE]
            /\ awaiting' = active
            /\ active' = NoSession
            /\ sup_pc' = "pause_await"
            /\ UNCHANGED bus_last
       ELSE /\ bus_last' = ConnectionEvent("Paused", "supervisor")
            /\ UNCHANGED <<cancel, awaiting, active, sup_pc>>
    /\ sup_error' = FALSE
    /\ UNCHANGED <<envVars, disable_flag, subscribed, rx_updates, monVars,
                   setVars, emit_total, connVars, last_options, spawned_from,
                   idVars>>

\* the three handles have resolved: publish the status and Paused
SupPauseDone ==
    /\ sup_pc = "pause_await"
    /\ Drained(awaiting)
    /\ sup_pc' = "recv"
    /\ awaiting' = NoSession
    /\ bus_last' = ConnectionEvent("Paused", "supervisor")
    /\ UNCHANGED <<envVars, taskVars, commands, active, last_options, paused,
                   ghostVars, idVars>>

\* Resume: nothing when a task set is active; else start_tasks with the
\* remembered options, or an error when there are none
SupResume ==
    /\ Take(Resume)
    /\ IF active = NoSession /\ last_options # NoOptions
       THEN StartTasks(last_options)
       ELSE /\ sup_error' = (active = NoSession)
            /\ UNCHANGED <<taskVars, active, paused, bus_last, spawned_from, idVars>>
    /\ UNCHANGED <<envVars, sup_pc, awaiting, last_options>>

\* Reload(options): stop_tasks(true) ...
SupReload(o) ==
    /\ Take(Reload(o))
    /\ AbortedWriteLands
    /\ IF active # NoSession
       THEN \E linger \in {FALSE, WokenByCancel(active)} :
                AbortTasks(active, linger)
       ELSE UNCHANGED <<taskVars, idVars>>
    /\ active' = NoSession
    /\ sup_pc' = "reload_start"
    /\ sup_error' = FALSE
    /\ UNCHANGED <<awaiting, last_options, paused, bus_last, spawned_from>>

\* ... then remember the options and start_tasks
SupReloadStart ==
    /\ sup_pc = "reload_start"
    /\ sup_pc' = "recv"
    /\ last_options' = last_taken.cmd.options
    /\ StartTasks(last_taken.cmd.options)
    /\ UNCHANGED <<envVars, commands, awaiting, enq_count, handled_count,
                   last_taken, last_given, given_noop>>

\* Shutdown: stop_tasks(true), break
SupShutdown ==
    /\ Take(Shutdown)
    /\ AbortedWriteLands
    /\ IF active # NoSession
       THEN \E linger \in {FALSE, WokenByCancel(active)} :
                AbortTasks(active, linger)
       ELSE UNCHANGED <<taskVars, idVars>>
    /\ active' = NoSession
    /\ sup_pc' = "ended"
    /\ sup_error' = FALSE
    /\ UNCHANGED <<awaiting, last_options, paused, bus_last, spawned_from>>

\* payloads the server sends in this setting
ServerPayloads == {ClipboardBroadcastPayload(CONTENT_TYPE_TEXT, "a")}

\* ---- one supervised agent in server mode ---------------------------------
\* RuntimeWorker::new: no task set, nothing remembered, paused; run() has
\* published Idle. The clipboard holds a text throughout.
ServerOff ==
    /\ InitSessions({})
    /\ machine = [s \in Sessions |-> "m1"]
    /\ last_text = [s \in Sessions |-> ""]
    /\ subscribed = [s \in Sessions |-> FALSE]
    /\ conn_pc = [s \in Sessions |-> "done"]
    /\ clipboard = [m \in Machines |-> IF m = "m1" THEN Txt("a") ELSE NoContent]
    /\ commands = <<>>
    /\ sup_pc = "recv"
    /\ active = NoSession
    /\ awaiting = NoSession
    /\ last_options = NoOptions
    /\ paused = TRUE
    /\ bus_last = ConnectionEvent("Idle", "supervisor")
    /\ enq_count = 0
    /\ handled_count = 0
    /\ last_taken = Queued(NoCommand, 0)
    /\ last_given = NoOptions
    /\ given_noop = FALSE
    /\ sup_error = FALSE
    /\ spawned_from = [s \in Sessions |-> NoOptions]

InitSup == ServerOff /\ LanOff

\* the last poll of an aborted task is a matter of microseconds: no clipboard
\* access, network exchange or timer of the next task set completes within it
NoneRunningOut == zombie = NoSession

SupMonitor(s) ==
    /\ NoneRunningOut
    /\ \/ MonCheckFlag(s)
       \/ MonRead(s)
       \/ MonEvaluateCounted(s)
       \/ MonWake(s)
       \/ MonCancelled(s)
SupApplier(s) ==
    /\ NoneRunningOut
    /\ \/ SetRecv(s)
       \/ SetWrite(s, TRUE)
       \/ SetClear(s)
       \/ SetCancelled(s)
       \/ SetClosed(s)
\* the steps the connection task takes without anything from the network
SupConnection(s) ==
    \/ ConnTop(s)
    \/ ConnAuthReply(s)
    \/ ConnAfterSession(s)
    \/ ConnAuthSleepDone(s)
    \/ ConnSend(s)
    \/ ConnRecv(s)
    \/ ConnCancelled(s)
    \/ ConnReconnectCancelled(s)
    \/ ConnReconnectDone(s)
\* what the network and the server decide
SupNetwork(s) ==
    /\ NoneRunningOut
    /\ \/ \E ok \in BOOLEAN : ConnConnected(s, ok)
       \/ \E r \in BasicReplies : ServerReply(s, r)
       \/ ConnClosed(s)
       \/ \E p \in ServerPayloads : ServerSend(s, p)
       \/ RelayForward(s)
Supervisor ==
    \/ \E o \in MoreOptions : SupStart(o)
    \/ SupPause
    \/ SupPauseDone
    \/ SupResume
    \/ \E o \in MoreOptions : SupReload(o)
    \/ SupReloadStart
    \/ SupShutdown

NextSup ==
    \/ \E c \in RuntimeCommand : UIEnqueue(c)
    \/ Supervisor
    \/ AbortLands
    \/ TickSec
    \/ \E s \in Sessions :
         SupMonitor(s) \/ SupApplier(s) \/ SupConnection(s) \/ SupNetwork(s)

\* the supervisor and every task keep being scheduled and time passes; the
\* network, the server and the UI are under no obligation
FairSup ==
    /\ WF_vars(Supervisor)
    /\ WF_vars(AbortLands)
    /\ WF_vars(TickSec)
    /\ \A s \in Sessions :
         /\ WF_vars(SupMonitor(s))
         /\ WF_vars(SupApplier(s))
         /\ WF_vars(SupConnection(s))

SpecSup == InitSup /\ [][NextSup]_vars /\ FairSup

\* ---- the supervisor under a UI that sends one command at a time ---------
\* commands the UI sends in all
MaxSerial == 4

SerialCommands ==
    {Start(o) : o \in MoreOptions} \cup {Reload(o) : o \in MoreOptions}
        \cup {Pause, Resume, Shutdown}

\* a handle method sends a command while none is queued
UISend(c) ==
    /\ sup_pc # "ended"
    /\ commands = <<>>
    /\ enq_count < MaxSerial
    /\ commands' = Append(commands, Queued(c, enq_count))
    /\ enq_count' = enq_count + 1
    /\ UNCHANGED <<envVars, taskVars, sup_pc, active, awaiting, last_options,
                   paused, bus_last, handled_count, last_taken, last_given,
                   given_noop, sup_error, spawned_from, idVars>>

\* the tasks up to their first wait for the clock or for clipboard traffic,
\* and their ways out
CmdTasks(s) ==
    \/ /\ NoneRunningOut
       /\ \/ MonCheckFlag(s)
          \/ MonRead(s)
          \/ MonEvaluateCounted(s)
          \/ MonCancelled(s)
          \/ SetCancelled(s)
          \/ SetClosed(s)
          \/ \E ok \in BOOLEAN : ConnConnected(s, ok)
          \/ \E r \in BasicReplies : ServerReply(s, r)
          \/ ConnClosed(s)
    \/ ConnTop(s)
    \/ ConnAuthReply(s)
    \/ ConnAfterSession(s)
    \/ ConnCancelled(s)
    \/ ConnReconnectCancelled(s)

NextCmd ==
    \/ \E c \in SerialCommands : UISend(c)
    \/ Supervisor
    \/ AbortLands
    \/ \E s \in Sessions : CmdTasks(s)

SpecCmd == InitSup /\ [][NextCmd]_vars

\* ---- claims about the monitor and the applier (SpecMon) -----------------
\* the step in which session s evaluates a read
Evaluates(s) == mon_pc[s] = "eval" /\ mon_pc'[s] = "sleep"
Limit == MaxImageKb * 1024

\* C1: applying an inbound payload never causes a monitor echo: a poll that
\* begins after the applier has written a content and cleared the flag never
\* broadcasts that content (the user not having set the clipboard since).
C1_NoEchoOfApplied == \A s \in Sessions : ~echoed[s]

\* C2: the monitor never has an OS clipboard read in progress while the
\* suppression flag is true.
C2_NoReadWhileFlag ==
    \A s \in Sessions : ~(mon_pc[s] = "reading" /\ disable_flag[s])

\* C3: two consecutive emissions are at least MIN_BROADCAST_INTERVAL apart;
\* a content read inside the window is not emitted and leaves last_text,
\* last_image_hash and last_send_time alone; the evaluation that follows a
\* rate-limited one is outside the window, so the change is looked at again.
C3_RateLimit ==
    [][\A s \in Sessions :
        /\ Evaluates(s) =>
             /\ sent_now'[s] # <<>> => since_emit[s] >= MIN_BROADCAST_INTERVAL
             /\ (mon_read[s].kind # "none" /\ since_send[s] < MIN_BROADCAST_INTERVAL) =>
                    /\ sent_now'[s] = <<>>
                    /\ rx_updates'[s] = rx_updates[s]
                    /\ last_text'[s] = last_text[s]
                    /\ last_image_hash'[s] = last_image_hash[s]
                    /\ since_send'[s] = since_send[s]
        /\ (mon_pc[s] = "eval" /\ outcome[s] = "throttled") =>
               since_send[s] >= MIN_BROADCAST_INTERVAL
      ]_vars
C3_Witness ==
    \E s \in Sessions :
        /\ mon_pc[s] = "sleep" /\ outcome[s] = "throttled"
        /\ mon_read[s] = Txt("a") /\ last_text[s] = ""

\* a run of polls has read a content that can be broadcast at all
RunBroadcastable(s) ==
    \/ run_val[s].kind = "text" /\ run_val[s].data # ""
    \/ run_val[s].kind = "image" /\ PngLen(run_val[s].data) <= Limit

\* C4 as claimed: a clipboard value that stays unchanged over consecutive
\* polls yields exactly one emission.
C4_ExactlyOnePerValue ==
    \A s \in Sessions : RunBroadcastable(s) => run_emits[s] = 1

\* C4 as amended: a text is emitted only when non-empty and different from
\* the last broadcast text, an image only when its hash differs from the last
\* broadcast hash; a value that stays unchanged over consecutive evaluated
\* polls yields at most one emission, and exactly one if and only if it was
\* such a change at the first of those polls.
C4_Dedup ==
    [][\A s \in Sessions :
        /\ Evaluates(s) /\ sent_now'[s] # <<>> =>
             /\ Len(sent_now'[s]) = 1
             /\ IF mon_read[s].kind = "text"
                THEN /\ sent_now'[s][1].content_type = CONTENT_TYPE_TEXT
                     /\ sent_now'[s][1].data = mon_read[s].data
                     /\ mon_read[s].data # ""
                     /\ mon_read[s].data # last_text[s]
                ELSE /\ mon_read[s].kind = "image"
                     /\ sent_now'[s][1].content_type = CONTENT_TYPE_IMAGE_PNG
                     /\ PngHash(mon_read[s].data) # last_image_hash[s]
        /\ run_emits'[s] <= 1
        /\ run_val'[s] # NoRun => (run_emits'[s] = 1 <=> run_fresh'[s])
      ]_vars
\* text "a" again after an image was broadcast in between: no emission
C4_Witness ==
    \E s \in Sessions :
        /\ mon_pc[s] = "sleep" /\ outcome[s] = "text_skip"
        /\ run_val[s] = Txt("a") /\ run_emits[s] = 0
        /\ last_text[s] = "a" /\ last_image_hash[s] # "none"

\* C5: an image whose PNG is longer than max_image_kb * 1024 is not emitted
\* and leaves last_image_hash and last_send_time alone; one that is not
\* longer (the threshold included) and has a new hash is emitted once.
C5_ImageSizePolicy ==
    [][\A s \in Sessions :
        (Evaluates(s) /\ mon_read[s].kind = "image") =>
            IF PngLen(mon_read[s].data) > Limit
            THEN /\ sent_now'[s] = <<>>
                 /\ rx_updates'[s] = rx_updates[s]
                 /\ last_image_hash'[s] = last_image_hash[s]
                 /\ since_send'[s] = since_send[s]
            ELSE (/\ since_send[s] >= MIN_BROADCAST_INTERVAL
                  /\ PngHash(mon_read[s].data) # last_image_hash[s]) =>
                    /\ sent_now'[s] =
                          <<ClipboardUpdate(CONTENT_TYPE_IMAGE_PNG,
                                            B64Encode(mon_read[s].data), DeviceId(s))>>
                    /\ last_image_hash'[s] = PngHash(mon_read[s].data)
                    /\ since_send'[s] = 0
      ]_vars
\* the image exactly on the threshold has been emitted
C5_Witness ==
    \E s \in Sessions :
        /\ mon_pc[s] = "sleep" /\ outcome[s] = "image_emit"
        /\ mon_read[s] = Img("p2") /\ PngLen("p2") = Limit

\* C6: an oversized image that stays on the clipboard over any number of
\* polls produces one Warn log and no emission.
C6_OneWarnPerOversized ==
    \A s \in Sessions :
        (run_val[s].kind = "image" /\ PngLen(run_val[s].data) > Limit) =>
            run_warns[s] <= 1 /\ run_emits[s] = 0

\* ---- claims about scenario S1 (SpecS1) ----------------------------------
\* no update is queued, on the wire or being applied
Quiet ==
    \A s \in Sessions :
        /\ rx_updates[s] = <<>> /\ wire_up[s] = <<>> /\ wire_down[s] = <<>>
        /\ rx_in[s] = <<>> /\ set_pc[s] = "idle"

C8_Step ==
    /\ handled_count' # handled_count =>
          /\ sup_pc = "recv"
          /\ handled_count' = handled_count + 1
          /\ last_taken'.ticket = handled_count
          /\ (last_taken'.cmd = Shutdown <=> sup_pc' = "ended")
    /\ sup_pc = "ended" =>
          /\ sup_pc' = "ended"
          /\ handled_count' = handled_count
          /\ last_taken' = last_taken
    /\ sup_pc' = "ended" =>
          /\ active' = NoSession
          /\ \A s \in Sessions : Terminated(s)' \/ s = zombie'

\* C8: the loop takes a command only when the handling of the one before is
\* over (never while a Pause awaits the tasks), and always the one enqueued
\* right after the one it took before; taking Shutdown, and nothing else,
\* ends the loop, and from then on there is no task set, no task but an
\* aborted one in its last poll, and no command is taken.
C8_CommandsInOrder == [][C8_Step]_vars
C8_Witness ==
    /\ sup_pc = "ended"
    /\ commands # <<>>
    /\ last_taken.cmd = Shutdown
    /\ handled_count < enq_count

C9_Step ==
    /\ (sup_pc = "recv" /\ sup_pc' = "pause_await") =>
          /\ active # NoSession
          /\ last_taken'.cmd = Pause
          /\ cancel'[active]
          /\ awaiting' = active
          /\ bus_last' = bus_last
    /\ (sup_pc = "pause_await" /\ bus_last'.by = "supervisor"
            /\ bus_last' # bus_last) =>
          sup_pc' = "recv"
    /\ (sup_pc = "pause_await" /\ sup_pc' # "pause_await") =>
          /\ Finished(awaiting)
          /\ bus_last' = ConnectionEvent("Paused", "supervisor")
          /\ sup_pc' = "recv"
          /\ active' = NoSession
          /\ last_options' = last_options
          /\ last_options = last_given

\* C9: a Pause taken while a task set is active fires that set's token and
\* publishes nothing; the supervisor publishes Connection(Paused), and
\* nothing before it, only in a step in which monitor, applier and
\* connection have all returned by themselves (none was aborted); after
\* that step there is no active task set and the remembered options are
\* those of the last Start or Reload taken.
C9_PauseDrains == [][C9_Step]_vars
C9_Witness ==
    /\ sup_pc = "recv"
    /\ last_taken.cmd = Pause
    /\ bus_last = ConnectionEvent("Paused", "supervisor")
    /\ cancel["alpha"]
    /\ Finished("alpha")
    /\ active = NoSession
    /\ last_options = "dirA"

\* C10: once Pause has fired the token of a task set, its monitor, applier
\* and connection all return and the Pause handling completes, whatever the
\* network and the server do.
C10_CancelTerminates ==
    \A s \in Sessions :
        (cancel[s] /\ awaiting = s) ~> (Finished(s) /\ sup_pc = "recv")

\* ---- claims about the handling of single commands (SpecCmd) -------------
\* the step in which the loop takes a command of type t
Takes(t) == handled_count' # handled_count /\ last_taken'.cmd.type = t

\* after the step the active task set is one just created from options o:
\* its three tasks at their start, token not fired, flag false, channels
\* empty
FreshlySpawned(o) ==
    /\ active' # NoSession
    /\ spawned_from'[active'] = o
    /\ mon_pc'[active'] = "top"
    /\ set_pc'[active'] = "idle"
    /\ conn_pc'[active'] = "top"
    /\ ~cancel'[active']
    /\ ~disable_flag'[active']
    /\ rx_in'[active'] = <<>>
    /\ rx_updates'[active'] = <<>>
    /\ ~subscribed'[active']

NothingSpawned == active' = NoSession /\ UNCHANGED taskVars

C11_Step ==
    Takes("Resume") =>
        IF active # NoSession
        THEN /\ UNCHANGED <<active, taskVars, spawned_from>>
             /\ ~sup_error'
        ELSE IF last_given # NoOptions
        THEN /\ last_options = last_given
             /\ IF ConfigOk(last_given)
                THEN FreshlySpawned(last_given) /\ ~sup_error'
                ELSE NothingSpawned /\ sup_error'
        ELSE /\ last_options = NoOptions
             /\ NothingSpawned
             /\ sup_error'

CancelledAndAborted(s) ==
    /\ cancel'[s]
    /\ mon_pc'[s] \in {"done", "aborted"}
    /\ set_pc'[s] \in {"done", "aborted"}
    /\ conn_pc'[s] \in {"done", "aborted"} \/ zombie' = s

C12_Step ==
    /\ Takes("Reload") =>
          /\ awaiting' = NoSession
          /\ sup_pc' = "reload_start"
          /\ active' = NoSession
          /\ active # NoSession => CancelledAndAborted(active)
          /\ last_given' = last_taken'.cmd.options
    /\ sup_pc = "reload_start" =>
          /\ sup_pc' # sup_pc => sup_pc' = "recv" /\ last_options' = last_given
          /\ sup_pc' = sup_pc => UNCHANGED <<active, last_options>>
          /\ sup_pc' # sup_pc =>
                IF ConfigOk(last_given)
                THEN /\ FreshlySpawned(last_given)
                     /\ device_id'[active'] # 0
                     /\ \A s \in Sessions : device_id'[active'] # device_id[s]
                     /\ ~sup_error'
                ELSE NothingSpawned /\ sup_error'

\* C12: taking Reload(o), with or without an active task set, awaits
\* nothing: the active task set, if any, is cancelled and aborted in that
\* step; the next step of the supervisor makes o the remembered options and,
\* if the Config of o loads, leaves a task set created from o as the active
\* one, with its tasks at their start, a token not fired, a flag that is
\* false, empty channels and a device id no task set had before; if it does
\* not load, no task set is active and an Error is published.
C12_Reload == [][C12_Step]_vars
C12_Witness ==
    /\ last_taken.cmd = Reload("dirNoCred")
    /\ sup_pc = "recv"
    /\ active # NoSession
    /\ spawned_from[active] = "dirNoCred"
    /\ conn_pc[active] = "top"
    /\ zombie \notin {NoSession, active}
    /\ device_id[active] \notin {0, device_id[zombie]}

\* the connection task of s can still act
LiveConnection(s) == conn_pc[s] \notin {"done", "aborted"}

\* the step publishes a Connection event of a connection task that is not
\* the one of the active task set
OldSetPublishes ==
    /\ active # NoSession
    /\ active' = active
    /\ bus_last' # bus_last
    /\ \E s \in Sessions \ {active} : conn_pc'[s] # conn_pc[s]

C13_Step ==
    /\ \A s, t \in Sessions : LiveConnection(s)' /\ LiveConnection(t)' => s = t
    /\ ~OldSetPublishes

\* C13: after every step at most one connection task can still act, and
\* once a task set is active no connection task of an earlier task set
\* publishes a Connection event.
C13_OneSession == [][C13_Step]_vars

\* the step runs start_tasks past its check for an active task set; the
\* options it runs with are the remembered ones after the step
RunsStartTasks ==
    \/ Takes("Start") /\ active = NoSession
    \/ Takes("Resume") /\ active = NoSession /\ last_options # NoOptions
    \/ sup_pc = "reload_start" /\ sup_pc' = "recv"

C14_Step ==
    (RunsStartTasks /\ ~(ConfigOk(last_options') /\ HasCredentials(last_options')))
        => /\ sup_error'
           /\ active' = NoSession
           /\ \A s \in Sessions : Terminated(s)' \/ s = zombie'

\* C14: when start_tasks runs with options whose Config does not load, has
\* an unparseable URL or lacks credentials, the step publishes an Error and
\* leaves no task set active and no task running.
C14_ConfigErrorsFatal == [][C14_Step]_vars

\* a step that publishes a Connection event (from another publisher than
\* the last one, or with another state)
PublishesConnection == bus_last' # bus_last

C15_Step == PublishesConnection => bus_last'.state # bus_last.state

\* C15: a Connection event never carries the state of the Connection event
\* published before it.
C15_OnChangeOnly == [][C15_Step]_vars

\* ---- the applier under every payload outcome (SpecSetter) ---------------
\* payloads of every kind the applier distinguishes: a text, an image that
\* decodes, an image that does not, an unknown content type
SetterPayloads ==
    { ClipboardBroadcastPayload(CONTENT_TYPE_TEXT, "a"),
      ClipboardBroadcastPayload(CONTENT_TYPE_IMAGE_PNG, B64Encode("p1")),
      ClipboardBroadcastPayload(CONTENT_TYPE_IMAGE_PNG, "a"),
      ClipboardBroadcastPayload("other", "a") }

\* a started task set in steady state
InitSetter ==
    /\ LanOff
    /\ InitSessions({"alpha"})
    /\ machine = [s \in Sessions |-> IF s = "alpha" THEN "m1" ELSE "m2"]
    /\ Started
    /\ last_text = [s \in Sessions |-> ""]
    /\ subscribed = [s \in Sessions |-> s = "alpha"]
    /\ conn_pc = [s \in Sessions |-> IF s = "alpha" THEN "steady" ELSE "done"]
    /\ clipboard = [m \in Machines |-> IF m = "m1" THEN Txt("b") ELSE NoContent]

\* the connection task forwards a payload while it is in steady state
SetterDeliver(s, p) ==
    /\ conn_pc[s] = "steady"
    /\ Deliver(s, p)

SetterApplier(s) ==
    \/ SetRecv(s)
    \/ \E ok \in BOOLEAN : SetWrite(s, ok)
    \/ \E landed \in BOOLEAN : SetJoinError(s, landed)
    \/ SetClear(s)
    \/ SetCancelled(s)
    \/ SetClosed(s)

NextSetter ==
    \/ \E p \in SetterPayloads : SetterDeliver("alpha", p)
    \/ SetterApplier("alpha")
    \/ MonCheckFlag("alpha")
    \/ MonRead("alpha")
    \/ MonEvaluate("alpha") /\ UNCHANGED emit_total
    \/ MonCancelled("alpha")
    \/ ConnCancelled("alpha")
    \/ ConnClosed("alpha")
    \/ ConnAfterSession("alpha")
    \/ UIEnqueue(Pause)
    \/ SupPause
    \/ SupPauseDone

SpecSetter == InitSetter /\ [][NextSetter]_vars

\* the applier awaits rx.recv() or has returned
SetterAtRest(s) == set_pc[s] \in {"idle", "done"}

C16_Step ==
    \A s \in Sessions :
       /\ SetterAtRest(s)' => ~disable_flag'[s]
       /\ (set_pc[s] # "done" /\ set_pc'[s] = "done") =>
             /\ set_pc[s] = "idle"
             /\ cancel[s] \/ (rx_in[s] = <<>> /\ conn_pc[s] = "done")
       /\ (set_pc[s] \in {"writing", "written"} /\ set_pc'[s] # set_pc[s]) =>
             set_pc'[s] \in {"written", "idle"}
       /\ (set_pc[s] = "idle" /\ rx_in[s] # <<>> /\ rx_in'[s] = Tail(rx_in[s])
             /\ set_pc'[s] # "done") =>
             /\ set_payload'[s] = Head(rx_in[s])
             /\ set_pc'[s] \in {"writing", "idle"}
             /\ set_pc'[s] = "idle" =>
                   set_result'[s] \in {"decode_err", "unknown_type"}

\* C16: whenever the applier awaits the next payload or has returned, the
\* suppression flag is false; it returns only from that wait, and only when
\* the token has fired or the queue is empty and closed; taking a payload it
\* either rejects it (undecodable image, unknown type) and waits again, or
\* starts the write, and after the write, whatever its result (done, OS
\* error, join error), it waits again.
C16_ApplierRobust == [][C16_Step]_vars
C16_Witness ==
    /\ set_pc["alpha"] = "idle"
    /\ set_result["alpha"] = "join_err"
    /\ ~disable_flag["alpha"]
    /\ rx_in["alpha"] # <<>>
    /\ ~cancel["alpha"]

\* ---- one task set and its server, every kind of reply (SpecConn) -------
\* start_tasks has just spawned the task set
InitConn ==
    /\ LanOff
    /\ InitSessions({"alpha"})
    /\ machine = [s \in Sessions |-> "m1"]
    /\ Started
    /\ last_text = [s \in Sessions |-> ""]
    /\ subscribed = [s \in Sessions |-> FALSE]
    /\ conn_pc = [s \in Sessions |-> IF s = "alpha" THEN "top" ELSE "done"]
    /\ clipboard = [m \in Machines |-> IF m = "m1" THEN Txt("a") ELSE NoContent]

\* what a server echoes to the session
EchoPayloads == {ClipboardBroadcastPayload(CONTENT_TYPE_TEXT, "b")}

\* what the network and the server decide
ConnNetwork(s) ==
    \/ \E ok \in BOOLEAN : ConnConnected(s, ok)
    \/ \E r \in AuthReplies : ServerReply(s, r)
    \/ ConnClosed(s)
    \/ \E p \in ServerPayloads : ServerSend(s, p)
    \/ \E p \in EchoPayloads : ServerEcho(s, p)
    \/ RelayForward(s)

\* the supervisor handling a Pause
ConnPause == SupPause \/ SupPauseDone

NextConn ==
    \/ UIEnqueue(Pause)
    \/ ConnPause
    \/ TickSec
    \/ SupMonitor("alpha")
    \/ SupApplier("alpha")
    \/ SupConnection("alpha")
    \/ ConnNetwork("alpha")

FairConn ==
    /\ WF_vars(ConnPause)
    /\ WF_vars(TickSec)
    /\ WF_vars(SupMonitor("alpha"))
    /\ WF_vars(SupApplier("alpha"))
    /\ WF_vars(SupConnection("alpha"))

SpecConn == InitConn /\ [][NextConn]_vars /\ FairConn

\* the reply reports a success: a text frame of either shape whose success
\* is the boolean true
ReplySaysSuccess(r) ==
    /\ r.frame = "text"
    /\ r.shape \in {"wrapped", "flat"}
    /\ r.success = "true"

\* the step in which the connection task of s handles the first reply
HandlesAuthReply(s) == conn_pc[s] = "auth_wait" /\ conn_pc'[s] # "auth_wait"

\* the connection task of s has published Error and Disconnected, has not
\* entered the steady state and has started the 3 s sleep
AuthFailureHandled(s, r) ==
    /\ conn_pc'[s] = "auth_fail_sleep"
    /\ conn_timer'[s] = AUTH_RETRY_DELAY
    /\ bus_last'.state = "Disconnected"
    /\ bus_last'.by = "connection"
    /\ bus_last'.error # NoError
    /\ r.success \in {"false", "not_bool"} => bus_last'.error.message = r.message
    /\ ~subscribed'[s]
    /\ UNCHANGED <<wire_up, rx_in>>

\* the 3 s sleep ends only when it is over, at the loop head
AuthSleepEnds(s) ==
    (conn_pc[s] = "auth_fail_sleep" /\ conn_pc'[s] # "auth_fail_sleep")
        => conn_timer[s] = 0 /\ conn_pc'[s] = "top"

C17_StepAsStated ==
    \A s \in Sessions :
       /\ HandlesAuthReply(s) =>
             LET r == Head(wire_down[s]) IN
               IF ReplySaysSuccess(r) THEN conn_pc'[s] = "steady"
               ELSE AuthFailureHandled(s, r)
       /\ AuthSleepEnds(s)

C17_Step ==
    \A s \in Sessions :
       /\ HandlesAuthReply(s) =>
             LET r == Head(wire_down[s]) IN
               IF ReplySaysSuccess(r) THEN conn_pc'[s] = "steady"
               ELSE IF cancel[s]
                    THEN /\ conn_pc'[s] = "done"
                         /\ ~subscribed'[s]
                         /\ UNCHANGED <<wire_up, rx_in>>
                    ELSE AuthFailureHandled(s, r)
       /\ AuthSleepEnds(s)

CliConfigs == {"dirA", "dirNoCred"}

\* main has loaded the config, spawned monitor and applier and enters the
\* loop; there is no supervisor
InitCli ==
    /\ LanOff
    /\ InitSessions({"alpha"})
    /\ machine = [s \in Sessions |-> "m1"]
    /\ last_text = [s \in Sessions |-> ""]
    /\ subscribed = [s \in Sessions |-> FALSE]
    /\ conn_pc = [s \in Sessions |-> IF s = "alpha" THEN "connecting" ELSE "done"]
    /\ clipboard = [m \in Machines |-> IF m = "m1" THEN Txt("a") ELSE NoContent]
    /\ commands = <<>>
    /\ sup_pc = "ended"
    /\ active = NoSession
    /\ awaiting = NoSession
    /\ last_options = NoOptions
    /\ paused = FALSE
    /\ bus_last = ConnectionEvent("Idle", "supervisor")
    /\ enq_count = 0
    /\ handled_count = 0
    /\ last_taken = Queued(NoCommand, 0)
    /\ last_given = NoOptions
    /\ given_noop = FALSE
    /\ sup_error = FALSE
    /\ \E c \in CliConfigs : spawned_from = [s \in Sessions |-> c]

\* main returns Err or panics: the process ends, and its tasks with it
CliExit(s) ==
    /\ conn_pc' = [conn_pc EXCEPT ![s] = "exited"]
    /\ mon_pc' = [mon_pc EXCEPT ![s] = "aborted"]
    /\ set_pc' = [set_pc EXCEPT ![s] = "aborted"]
    /\ wire_down' = [wire_down EXCEPT ![s] = <<>>]
    /\ wire_up' = [wire_up EXCEPT ![s] = <<>>]
    /\ UNCHANGED conn_timer

\* end of an iteration: "Reconnecting in 5 seconds", sleep
CliReconnect(s) ==
    /\ conn_pc' = [conn_pc EXCEPT ![s] = "reconnect_wait"]
    /\ conn_timer' = [conn_timer EXCEPT ![s] = RECONNECT_DELAY]
    /\ wire_down' = [wire_down EXCEPT ![s] = <<>>]
    /\ wire_up' = [wire_up EXCEPT ![s] = <<>>]
    /\ UNCHANGED <<mon_pc, set_pc>>

\* the connect returns (res: refused, or connected and the auth
\* request sent, or connected and the send failed); the auth request is
\* built with unwrap() on username and password
CliConnected(s, res) ==
    /\ conn_pc[s] = "connecting"
    /\ IF res = "refused" THEN CliReconnect(s)
       ELSE IF ~HasCredentials(spawned_from[s]) \/ res = "send_err"
            THEN CliExit(s)
            ELSE /\ conn_pc' = [conn_pc EXCEPT ![s] = "auth_wait"]
                 /\ UNCHANGED <<conn_timer, wire_up, wire_down, mon_pc, set_pc>>
    /\ UNCHANGED <<envVars, shared, mon_read, read_src, poll_applied, last_text,
                   last_image_hash, since_send, sleep_left, outcome, echoed,
                   sent_now, since_emit, run_val, run_fresh, run_emits,
                   run_warns, rx_in, set_payload, set_result, emit_total,
                   supVars>>

\* what main does with the first reply: go on to the steady state, or
\* return Err (a stream that has ended is taken for no reply needed)
CliAuthPasses(r) ==
    \/ r.frame = "end"
    \/ r.frame = "text" /\ r.shape \in {"wrapped", "flat"} /\ r.success = "true"

\* read.next() yields the first reply
CliAuthReply(s) ==
    /\ conn_pc[s] = "auth_wait"
    /\ wire_down[s] # <<>>
    /\ IF CliAuthPasses(Head(wire_down[s]))
       THEN /\ conn_pc' = [conn_pc EXCEPT ![s] = "steady"]
            /\ subscribed' = [subscribed EXCEPT ![s] = TRUE]
            /\ wire_down' = [wire_down EXCEPT ![s] = Tail(@)]
            /\ UNCHANGED <<conn_timer, wire_up, mon_pc, set_pc>>
       ELSE /\ CliExit(s)
            /\ UNCHANGED subscribed
    /\ UNCHANGED <<envVars, disable_flag, cancel, rx_updates, mon_read, read_src,
                   poll_applied, last_text, last_image_hash, since_send,
                   sleep_left, outcome, echoed, sent_now, since_emit, run_val,
                   run_fresh, run_emits, run_warns, rx_in, set_payload,
                   set_result, emit_total, supVars>>

\* the monitor broadcasts an update for a text d
CliMonitorEmits(s, d) ==
    /\ conn_pc[s] # "exited"
    /\ subscribed[s]
    /\ Len(rx_updates[s]) < MaxInbound
    /\ rx_updates' = [rx_updates EXCEPT ![s] =
                         Append(@, ClipboardUpdate(CONTENT_TYPE_TEXT, d, DeviceId(s)))]
    /\ UNCHANGED <<envVars, disable_flag, cancel, subscribed, monVars, setVars,
                   emit_total, connVars, supVars>>

\* send_task: an update goes out as a text frame
CliSend(s) ==
    /\ conn_pc[s] = "steady"
    /\ rx_updates[s] # <<>>
    /\ Len(wire_up[s]) < MaxInbound
    /\ rx_updates' = [rx_updates EXCEPT ![s] = Tail(@)]
    /\ wire_up' = [wire_up EXCEPT ![s] = Append(@, Head(rx_updates[s]))]
    /\ UNCHANGED <<envVars, disable_flag, cancel, subscribed, monVars, setVars,
                   emit_total, conn_pc, conn_timer, wire_down, supVars>>

\* recv_task: the payload of a broadcast frame goes to the applier queue
CliRecv(s) ==
    /\ conn_pc[s] = "steady"
    /\ wire_down[s] # <<>>
    /\ Len(rx_in[s]) < INBOUND_CAPACITY
    /\ LET f == Head(wire_down[s]) IN
         rx_in' = [rx_in EXCEPT ![s] =
                     Append(@, ClipboardBroadcastPayload(f.content_type, f.data))]
    /\ wire_down' = [wire_down EXCEPT ![s] = Tail(@)]
    /\ UNCHANGED <<envVars, shared, monVars, set_pc, set_payload, set_result,
                   emit_total, conn_pc, conn_timer, wire_up, supVars>>

\* send_task or recv_task ends (write error, read error, remote close)
CliSessionEnds(s) ==
    /\ conn_pc[s] = "steady"
    /\ CliReconnect(s)
    /\ subscribed' = [subscribed EXCEPT ![s] = FALSE]
    /\ rx_updates' = [rx_updates EXCEPT ![s] = <<>>]
    /\ UNCHANGED <<envVars, disable_flag, cancel, mon_read, read_src,
                   poll_applied, last_text, last_image_hash, since_send,
                   sleep_left, outcome, echoed, sent_now, since_emit, run_val,
                   run_fresh, run_emits, run_warns, setVars, emit_total,
                   supVars>>

\* sleep(5 s) is over: next iteration
CliReconnectDone(s) ==
    /\ conn_pc[s] = "reconnect_wait"
    /\ conn_timer[s] = 0
    /\ conn_pc' = [conn_pc EXCEPT ![s] = "connecting"]
    /\ UNCHANGED <<envVars, shared, monVars, setVars, emit_total, conn_timer,
                   wire_up, wire_down, supVars>>

CliOutcomes == {"refused", "send_err", "sent"}

NextCli ==
    \/ \E o \in CliOutcomes : CliConnected("alpha", o)
    \/ \E r \in AuthReplies : ServerReply("alpha", r)
    \/ CliAuthReply("alpha")
    \/ \E d \in Texts \ {""} : CliMonitorEmits("alpha", d)
    \/ CliSend("alpha")
    \/ CliRecv("alpha")
    \/ \E p \in ServerPayloads : ServerSend("alpha", p)
    \/ RelayForward("alpha")
    \/ CliSessionEnds("alpha")
    \/ CliReconnectDone("alpha")
    \/ TickSec

SpecCli == InitCli /\ [][NextCli]_vars

\* C18: in the CLI client no authentication failure and no I/O error of the
\* auth exchange ends main: the loop goes on.
C18_LoopContainsFailures == \A s \in Sessions : conn_pc[s] # "exited"

C19_Step ==
    \A s \in Sessions :
       /\ (conn_pc[s] \in {"connecting", "steady"} /\ conn_pc'[s] = "after_match") =>
             bus_last' = ConnectionEvent("Disconnected", "connection")
       /\ (conn_pc[s] = "after_match" /\ conn_pc'[s] # "after_match") =>
             /\ bus_last = ConnectionEvent("Disconnected", "connection")
             /\ IF cancel[s]
                THEN conn_pc'[s] = "done"
                ELSE /\ conn_pc'[s] = "reconnect_wait"
                     /\ conn_timer'[s] = RECONNECT_DELAY
                     /\ bus_last' = ConnectionEvent("Reconnecting", "connection")
       /\ (conn_pc[s] = "reconnect_wait" /\ conn_pc'[s] = "reconnect_wait") =>
             conn_timer'[s] \in {conn_timer[s], conn_timer[s] - 1}
       /\ (conn_pc[s] = "reconnect_wait" /\ conn_pc'[s] # "reconnect_wait") =>
             \/ conn_timer[s] = 0 /\ conn_pc'[s] = "top"
             \/ cancel[s] /\ conn_pc'[s] = "done"
       /\ (conn_pc[s] # "done" /\ conn_pc'[s] = "done") => cancel[s]

\* the reconnect wait ends: the task attempts the next connection or, the
\* token fired, has returned
C19_Retries ==
    \A s \in Sessions :
        conn_pc[s] = "reconnect_wait" ~> conn_pc[s] \in {"connecting", "done"}

\* C19: a failed connect and the end of an established session publish
\* Disconnected; next, unless the token has fired, the task publishes
\* Reconnecting and waits 5 s, after which it is back at the loop head and
\* connects again, any number of times; it returns only when the token has
\* fired.
C19_ReconnectLoop == [][C19_Step]_vars /\ C19_Retries
C19_Witness ==
    /\ conn_pc["alpha"] = "reconnect_wait"
    /\ conn_timer["alpha"] = 0
    /\ bus_last = ConnectionEvent("Reconnecting", "connection")
    /\ ~cancel["alpha"]
    /\ rx_in["alpha"] # <<>>

\* the connection task of s takes a broadcast frame that carries the
\* session's own device id
TakesOwnBroadcast(s) ==
    /\ conn_pc[s] = "steady"
    /\ wire_down[s] # <<>>
    /\ Head(wire_down[s]).sender_device_id = DeviceId(s)
    /\ wire_down'[s] = Tail(wire_down[s])

C20_Step ==
    \A s \in Sessions : TakesOwnBroadcast(s) => rx_in'[s] = rx_in[s]

\* C20: a broadcast frame whose sender_device_id is the session's own
\* device id is dropped by the connection task: nothing is added to the
\* applier queue.
C20_OwnBroadcastIgnored == [][C20_Step]_vars

\* ==== LAN mode ==========================================================
\* ---- discovery listener and peer connector of one agent -----------------
\* a datagram: its first eight bytes and the JSON after them (NoBeacon: no
\* valid JSON of a DiscoveryBeacon)
NoBeacon == DiscoveryBeacon(0, "", 0)
Beacons == {DiscoveryBeacon(id, "pc", DEFAULT_TCP_PORT) : id \in DeviceIds}
Datagrams ==
    {[magic |-> DISCOVERY_MAGIC, beacon |-> b] : b \in Beacons \cup {NoBeacon}}
      \cup {[magic |-> "other", beacon |-> DiscoveryBeacon(1, "pc", DEFAULT_TCP_PORT)]}
\* addresses of other hosts of the broadcast domain
SrcAddrs == {"ip2", "ip3"}

decode_beacon(d) == IF d.magic # DISCOVERY_MAGIC THEN NoBeacon ELSE d.beacon

\* an insert that reports every overwrite as a change
upsert_peer_Noisy(table, beacon, ip, now) ==
    [table |-> [table EXCEPT ![beacon.device_id] =
                   DiscoveredPeer(beacon.device_id, beacon.device_name, ip,
                                  beacon.tcp_port, now)],
     changed |-> TRUE]

\* the map after the insert, and whether a visible field differs
upsert_peer(table, beacon, ip, now) ==
    LET new_entry == DiscoveredPeer(beacon.device_id, beacon.device_name, ip,
                                    beacon.tcp_port, now)
        existing == table[beacon.device_id]
    IN  [table |-> [table EXCEPT ![beacon.device_id] = new_entry],
         changed |-> IF existing # NoPeer
                     THEN \/ existing.device_name # new_entry.device_name
                          \/ existing.addr # new_entry.addr
                          \/ existing.tcp_port # new_entry.tcp_port
                     ELSE TRUE]

Stale_Never(last_seen, now) == FALSE
\* now.saturating_sub(peer.last_seen) < PEER_EXPIRY_SECS fails
Stale(last_seen, now) == ~(Max(now - last_seen, 0) < PEER_EXPIRY_SECS)

\* the map after retain, and the number of entries removed
prune_stale_peers(table, now) ==
    LET gone == {id \in DeviceIds :
                   table[id] # NoPeer /\ Stale(table[id].last_seen, now)}
    IN  [table |-> [id \in DeviceIds |-> IF id \in gone THEN NoPeer ELSE table[id]],
         removed |-> Cardinality(gone)]

\* what the listener does with one datagram: the map after it, and what it
\* did (which arm, upsert_peer's result, the entries pruned, the
\* LanPeersChanged events sent)
HandleDatagram(table, own, d, ip, now) ==
    LET beacon == decode_beacon(d)
        up == upsert_peer(table, beacon, ip, now)
        pr == prune_stale_peers(up.table, now)
    IN  IF beacon = NoBeacon
        THEN [table |-> table, last |-> [NotHandled EXCEPT !.kind = "dropped"]]
        ELSE IF beacon.device_id = own
        THEN [table |-> table, last |-> [NotHandled EXCEPT !.kind = "self"]]
        ELSE [table |-> pr.table,
              last |-> [kind |-> "peer", changed |-> up.changed,
                        pruned |-> pr.removed,
                        emits |-> (IF up.changed THEN 1 ELSE 0)
                                    + (IF pr.removed > 0 THEN 1 ELSE 0)]]

\* one datagram taken from the socket by the listener of agent a
ListenerRecv(a, d, ip) ==
    /\ own_device_id[a] # 0
    /\ LET h == HandleDatagram(peers[a], own_device_id[a], d, ip, lan_now)
       IN  /\ peers' = [peers EXCEPT ![a] = h.table]
           /\ disc_last' = [disc_last EXCEPT ![a] = h.last]
    /\ UNCHANGED <<lan_now, own_device_id, connected, clients, spawn_count,
                   scan_left, peerVars, outerVars>>

Eligible_NoMemory(own, id, attempted) == ~(own <= id)
\* the connector's two tests on a table entry
Eligible(own, id, attempted) == ~(own <= id) /\ id \notin attempted

\* the connector of agent a wakes from its sleep and scans the table
ConnectorScan(a) ==
    /\ own_device_id[a] # 0
    /\ scan_left[a] = 0
    /\ LET chosen == {id \in DeviceIds :
                        /\ peers[a][id] # NoPeer
                        /\ Eligible(own_device_id[a], id, connected[a])}
       IN  /\ connected' = [connected EXCEPT ![a] = @ \cup chosen]
           /\ clients' = [clients EXCEPT ![a] = [id \in DeviceIds |->
                 IF id \in chosen
                 THEN [addr |-> peers[a][id].addr,
                       tcp_port |-> peers[a][id].tcp_port, pc |-> "connecting"]
                 ELSE @[id]]]
           /\ spawn_count' = [spawn_count EXCEPT ![a] = [id \in DeviceIds |->
                 IF id \in chosen THEN Min(@[id] + 1, 2) ELSE @[id]]]
    /\ scan_left' = [scan_left EXCEPT ![a] = CONNECTOR_SCAN_INTERVAL_SECS]
    /\ UNCHANGED <<lan_now, own_device_id, peers, disc_last, peerVars,
                   outerVars>>

\* a second passes; a connector whose sleep is over scans first
LanTick ==
    /\ lan_now < MaxNow
    /\ \A a \in Agents : own_device_id[a] # 0 => scan_left[a] > 0
    /\ lan_now' = lan_now + 1
    /\ scan_left' = [a \in Agents |-> Max(scan_left[a] - 1, 0)]
    /\ disc_last' = [a \in Agents |-> NotHandled]
    /\ UNCHANGED <<own_device_id, peers, connected, clients, spawn_count,
                   peerVars, outerVars>>

\* LAN mode has just started on P1, whose device id is neither the least
\* nor the greatest of the domain
InitDisc ==
    /\ ServerOff
    /\ PeerOff
    /\ StartOff
    /\ BusOff
    /\ FanOff
    /\ CfgOff
    /\ RcvOff
    /\ lan_now = 0
    /\ own_device_id = [a \in Agents |-> IF a = "P1" THEN 2 ELSE 0]
    /\ peers = [a \in Agents |-> NoPeers]
    /\ connected = [a \in Agents |-> {}]
    /\ clients = [a \in Agents |-> [id \in DeviceIds |-> NoClient]]
    /\ spawn_count = [a \in Agents |-> [id \in DeviceIds |-> 0]]
    /\ scan_left = [a \in Agents |->
                      IF a = "P1" THEN CONNECTOR_SCAN_INTERVAL_SECS ELSE 0]
    /\ disc_last = [a \in Agents |-> NotHandled]

NextDisc ==
    \/ \E d \in Datagrams, ip \in SrcAddrs : ListenerRecv("P1", d, ip)
    \/ ConnectorScan("P1")
    \/ LanTick

SpecDisc == InitDisc /\ [][NextDisc]_vars

\* ---- claims: LAN discovery ------------------------------------------------
HasStale(a) ==
    \E id \in DeviceIds :
        peers[a][id] # NoPeer /\ lan_now - peers[a][id].last_seen >= PEER_EXPIRY_SECS

\* C21: once the listener has handled a received beacon, of another peer or
\* its own, the peer table holds no entry with now - last_seen >= 15 s, and
\* a removal comes with a LanPeersChanged event.
C21_PeerExpiry ==
    \A a \in Agents :
        disc_last[a].kind \in {"self", "peer"} =>
            /\ ~HasStale(a)
            /\ disc_last[a].pruned > 0 => disc_last[a].emits > 0

Spawns(a, id) == spawn_count'[a][id] > spawn_count[a][id]

C30_Step ==
    \A a \in Agents, id \in DeviceIds :
        /\ Spawns(a, id) =>
              /\ own_device_id[a] > id
              /\ id \notin connected[a]
              /\ peers[a][id] # NoPeer
              /\ clients'[a][id].addr = peers[a][id].addr
        /\ (peers[a][id] # NoPeer /\ peers'[a][id] = NoPeer) =>
              clients'[a][id] = clients[a][id]
        /\ clients[a][id] # NoClient => clients'[a][id] = clients[a][id]

C30_Rule ==
    /\ \A x, y \in DeviceIds :
          /\ x # y => (Eligible(x, y, {}) <=> ~Eligible(y, x, {}))
          /\ ~Eligible(x, x, {})
    /\ \A a \in Agents, id \in DeviceIds : spawn_count[a][id] <= 1

\* C30: the connector spawns a client task for a table entry only if its own
\* device id is greater and the entry's id was never attempted; of two
\* distinct ids exactly one qualifies, of equal ids none; no device id gets
\* a second client task, and pruning an entry leaves its client task alone.
C30_ConnectorRule == [][C30_Step /\ C30_Rule']_vars
\* the entry of a peer that has a client task has just been pruned
C30_Witness ==
    /\ peers["P1"][1] = NoPeer
    /\ clients["P1"][1].pc = "connecting"
    /\ spawn_count["P1"][1] = 1
    /\ disc_last["P1"].pruned > 0

\* ---- two agents of one broadcast domain ----------------------------------
\* the agent whose TCP host listens at an address
AgentAt(ip) == CHOOSE a \in Agents : AddrOf(a) = ip
\* an agent's broadcaster sends its beacon and the listener of b takes it
MeshBeacon(a, b) ==
    /\ a # b
    /\ own_device_id[a] # 0
    /\ ListenerRecv(b, [magic |-> DISCOVERY_MAGIC,
                        beacon |-> DiscoveryBeacon(own_device_id[a], "pc",
                                                   DEFAULT_TCP_PORT)],
                    AddrOf(a))

\* run_tcp_client of the task for id: TcpStream::connect returns; the host at
\* the address, if there is one, accepts and spawns its session task
MeshConnect(a, id) ==
    /\ clients[a][id].pc = "connecting"
    /\ clients' = [clients EXCEPT ![a][id].pc =
                     IF own_device_id[AgentAt(clients[a][id].addr)] # 0
                     THEN "handshake" ELSE "backoff"]
    /\ UNCHANGED <<lan_now, own_device_id, peers, connected, spawn_count,
                   scan_left, disc_last, peerVars, outerVars>>

\* Hello and Welcome have been exchanged: both ends enter run_peer_session.
\* Neither end compares the device id it is told with anything.
MeshHandshake(a, id) ==
    /\ clients[a][id].pc = "handshake"
    /\ clients' = [clients EXCEPT ![a][id].pc = "session"]
    /\ UNCHANGED <<lan_now, own_device_id, peers, connected, spawn_count,
                   scan_left, disc_last, peerVars, outerVars>>

\* the connection fails: both ends return, the client task goes on to its wait
MeshSessionEnds(a, id) ==
    /\ clients[a][id].pc \in {"handshake", "session"}
    /\ clients' = [clients EXCEPT ![a][id].pc = "backoff"]
    /\ UNCHANGED <<lan_now, own_device_id, peers, connected, spawn_count,
                   scan_left, disc_last, peerVars, outerVars>>

\* the wait is over: the next connect to the same address
MeshRetry(a, id) ==
    /\ clients[a][id].pc = "backoff"
    /\ clients' = [clients EXCEPT ![a][id].pc = "connecting"]
    /\ UNCHANGED <<lan_now, own_device_id, peers, connected, spawn_count,
                   scan_left, disc_last, peerVars, outerVars>>

\* device ids some agent has used or heard of
KnownIds ==
    {own_device_id[a] : a \in Agents}
      \cup UNION {connected[a] : a \in Agents}
      \cup {id \in DeviceIds : \E a \in Agents : peers[a][id] # NoPeer}

\* the application on a's machine restarts: its tasks and connections are
\* gone, start_lan_mode draws a new device id and binds the same ports
MeshRestart(a) ==
    /\ own_device_id[a] # 0
    /\ \E id \in DeviceIds \ KnownIds :
          own_device_id' = [own_device_id EXCEPT ![a] = id]
    /\ peers' = [peers EXCEPT ![a] = NoPeers]
    /\ connected' = [connected EXCEPT ![a] = {}]
    /\ spawn_count' = [spawn_count EXCEPT ![a] = [id \in DeviceIds |-> 0]]
    /\ scan_left' = [scan_left EXCEPT ![a] = CONNECTOR_SCAN_INTERVAL_SECS]
    /\ disc_last' = [disc_last EXCEPT ![a] = NotHandled]
    /\ clients' = [b \in Agents |-> [id \in DeviceIds |->
          IF b = a THEN NoClient
          ELSE IF clients[b][id].pc \in {"handshake", "session"}
          THEN [clients[b][id] EXCEPT !.pc = "backoff"]
          ELSE clients[b][id]]]
    /\ UNCHANGED <<lan_now, peerVars, outerVars>>

\* the mesh is watched for this many seconds
MaxMeshNow == 5
MeshTick == lan_now < MaxMeshNow /\ LanTick

\* scenario S3: both agents start at the same time, P2 with the smaller or
\* the greater device id
InitMesh ==
    /\ ServerOff
    /\ PeerOff
    /\ StartOff
    /\ BusOff
    /\ FanOff
    /\ CfgOff
    /\ RcvOff
    /\ lan_now = 0
    /\ \E id \in {1, 3} :
          own_device_id = [a \in Agents |-> IF a = "P1" THEN 2 ELSE id]
    /\ peers = [a \in Agents |-> NoPeers]
    /\ connected = [a \in Agents |-> {}]
    /\ clients = [a \in Agents |-> [id \in DeviceIds |-> NoClient]]
    /\ spawn_count = [a \in Agents |-> [id \in DeviceIds |-> 0]]
    /\ scan_left = [a \in Agents |-> CONNECTOR_SCAN_INTERVAL_SECS]
    /\ disc_last = [a \in Agents |-> NotHandled]

NextMesh ==
    \/ \E a, b \in Agents : MeshBeacon(a, b)
    \/ \E a \in Agents : ConnectorScan(a)
    \/ \E a \in Agents, id \in DeviceIds :
          \/ MeshConnect(a, id)
          \/ MeshHandshake(a, id)
          \/ MeshSessionEnds(a, id)
          \/ MeshRetry(a, id)
    \/ \E a \in Agents : MeshRestart(a)
    \/ MeshTick

SpecMesh == InitMesh /\ [][NextMesh]_vars

\* ---- claims: LAN mesh ------------------------------------------------------
\* client tasks whose connection has completed the handshake
Established ==
    {<<a, id>> \in Agents \X DeviceIds : clients[a][id].pc = "session"}

\* C22: at any time there is at most one established TCP session between the
\* two agents, whatever the discoveries, session failures, reconnects and
\* restarts (a restarted agent has a new device id and its old address).
C22_OneSessionPerPair == Cardinality(Established) <= 1

\* ---- one end of a peer connection (runtime/lan/peer.rs) -------------------

MaxStreak == 3

PeerMessages == {"Hello", "Welcome", "Ping", "Pong", "Clipboard"}

\* u32::from_be_bytes
from_be_bytes(b) == b[1] * 16777216 + b[2] * 65536 + b[3] * 256 + b[4]

\* the length prefix encode_peer_message gives a short message
HonestPrefix == <<0, 0, 0, 30>>

\* a frame on the wire: the four prefix bytes, what the payload bytes are
\* (a serialised message or something else), and how much of it has arrived:
\* "all", only the "prefix", or "none" of it yet
Frame(len_buf, body, part) == [len_buf |-> len_buf, body |-> body, part |-> part]

encode_peer_message(msg) == Frame(HonestPrefix, msg, "all")

NoFrame == Frame(<<>>, "", "none")

\* prefixes a remote can send: an honest one, exactly MAX_FRAME_SIZE, one more,
\* and 2^31 - 1 (the comparison is unsigned in the program; TLC's integers end
\* there)
SmallPrefixes == {HonestPrefix, <<1, 0, 0, 0>>}
LargePrefixes == {<<1, 0, 0, 1>>, <<127, 255, 255, 255>>}

InboundFrames ==
    {Frame(HonestPrefix, b, "all") : b \in PeerMessages \cup {"garbage"}}
    \cup {Frame(HonestPrefix, b, "prefix") : b \in {"Pong", "Clipboard"}}
    \cup {Frame(<<1, 0, 0, 0>>, b, "all") : b \in {"Hello", "Welcome", "Clipboard"}}
    \cup {Frame(<<1, 0, 0, 0>>, "Clipboard", "prefix")}
    \cup {Frame(l, "garbage", "all") : l \in LargePrefixes}
    \cup {Frame(<<1, 0, 0, 1>>, "garbage", "prefix")}

\* what is left in the stream of a frame whose prefix a dropped read consumed:
\* payload bytes, JSON text, of which the first four will be taken for a prefix
Remainder(f) ==
    Frame(<<34, 116, 121, 112>>, "garbage", IF f.part = "all" THEN "all" ELSE "none")

FrameTooLarge_Inclusive(len) == len >= MAX_FRAME_SIZE

\* the test both read functions make on the prefix
FrameTooLarge(len) == len > MAX_FRAME_SIZE

\* read_peer_message and read_peer_message_from_reader on a frame that has
\* arrived as far as they need it: the message or the error, and the size of
\* the payload buffer allocated
read_peer_message(f) ==
    LET len == from_be_bytes(f.len_buf) IN
    IF FrameTooLarge(len)
    THEN [msg |-> "", err |-> "frame too large", alloc |-> 0]
    ELSE IF f.body \in PeerMessages
         THEN [msg |-> f.body, err |-> "", alloc |-> len]
         ELSE [msg |-> "", err |-> "deserialising PeerMessage", alloc |-> len]

HeartbeatDead_Inclusive(elapsed) == elapsed >= HEARTBEAT_TIMEOUT_SECS

\* run_peer_session's test at the top of its loop
HeartbeatDead(elapsed) == elapsed > HEARTBEAT_TIMEOUT_SECS

SatTimeout == HEARTBEAT_TIMEOUT_SECS + 1

\* the read of the next frame can make progress
ReadReady ==
    \/ peer_inbound.part = "all"
    \/ peer_inbound.part = "prefix" /\ ~peer_reading

\* the stream after a select arm other than the read has won: a pending read
\* is dropped together with the prefix it consumed
AfterDrop == IF peer_reading THEN Remainder(peer_inbound) ELSE peer_inbound

\* the connection is over with the given result: host_session's task ends;
\* run_tcp_client logs, tests the token and starts its sleep
ReturnedWith(result, delay) ==
    /\ peer_result' = result
    /\ peer_subscribed' = FALSE
    /\ peer_updates' = 0
    /\ peer_inbound' = NoFrame
    /\ peer_reading' = FALSE
    /\ since_pong' = 0
    /\ hb_left' = 0
    /\ hb_streak' = IF result = "heartbeat timeout"
                    THEN Min(hb_streak + 1, MaxStreak) ELSE 0
    /\ IF peer_role = "client" /\ ~peer_cancel
       THEN /\ peer_pc' = "wait"
            /\ wait_left' = delay
            /\ wait_secs' = delay
       ELSE /\ peer_pc' = IF peer_role = "client" THEN "stopped" ELSE "closed"
            /\ wait_left' = 0
            /\ UNCHANGED wait_secs

Returned_Doubled(result) == ReturnedWith(result, delay_secs * 2)

Returned(result) == ReturnedWith(result, delay_secs)

\* the end of a loop iteration of run_peer_session: the test at the loop top
Iterated(elapsed, hb, updates, inbound) ==
    IF HeartbeatDead(elapsed)
    THEN Returned("heartbeat timeout")
    ELSE /\ peer_pc' = "session"
         /\ since_pong' = elapsed
         /\ hb_left' = hb
         /\ peer_updates' = updates
         /\ peer_inbound' = inbound
         /\ peer_reading' = FALSE
         /\ UNCHANGED <<peer_result, peer_subscribed, hb_streak, wait_left,
                        wait_secs>>

\* run_tcp_client: TcpStream::connect resolves; on success the back-off is
\* reset and client_session writes Hello
PeerConnected(ok, wrote) ==
    /\ peer_role = "client"
    /\ peer_pc = "connecting"
    /\ ~peer_cancel
    /\ peer_arm' = "connect"
    /\ peer_alloc' = 0
    /\ peer_forwarded' = FALSE
    /\ delay_secs' = IF ok THEN INITIAL_RECONNECT_DELAY_SECS ELSE delay_secs
    /\ peer_out' = IF ok /\ wrote THEN {"Hello"} ELSE {}
    /\ IF ok /\ wrote
       THEN /\ peer_pc' = "handshake"
            /\ peer_result' = "none"
            /\ UNCHANGED <<peer_subscribed, peer_updates, peer_inbound,
                           peer_reading, since_pong, hb_left, hb_streak,
                           wait_left, wait_secs>>
       ELSE ReturnedWith(IF ok THEN "write_peer_message" ELSE "connect failed",
                         delay_secs')
    /\ UNCHANGED <<peer_role, peer_cancel, discVars, outerVars>>

\* run_tcp_client: the token fires while connecting or sleeping, or is found
\* set by the loop condition
PeerStops ==
    /\ peer_role = "client"
    /\ peer_pc \in {"connecting", "wait"}
    /\ peer_cancel
    /\ peer_pc' = "stopped"
    /\ wait_left' = 0
    /\ peer_arm' = "cancel"
    /\ peer_alloc' = 0
    /\ UNCHANGED <<peer_role, peer_cancel, peer_inbound, peer_updates,
                   since_pong, hb_left, delay_secs, wait_secs, peer_result,
                   peer_subscribed, peer_forwarded, peer_out, peer_reading,
                   hb_streak, discVars, outerVars>>

\* a doubling whose ceiling comes one doubling late
NextDelay_Late(d) == Min(d * 2, MAX_RECONNECT_DELAY_SECS * 2)

\* (delay_secs * 2).min(MAX_RECONNECT_DELAY_SECS)
NextDelay(d) == Min(d * 2, MAX_RECONNECT_DELAY_SECS)

\* run_tcp_client: the sleep is over; the delay doubles up to the ceiling
PeerWaitDone ==
    /\ peer_role = "client"
    /\ peer_pc = "wait"
    /\ ~peer_cancel
    /\ wait_left = 0
    /\ delay_secs' = NextDelay(delay_secs)
    /\ peer_pc' = "connecting"
    /\ peer_arm' = "wait"
    /\ peer_alloc' = 0
    /\ UNCHANGED <<peer_role, peer_cancel, peer_inbound, peer_updates,
                   since_pong, hb_left, wait_left, wait_secs, peer_result,
                   peer_subscribed, peer_forwarded, peer_out, peer_reading,
                   hb_streak, discVars, outerVars>>

FirstFrameOk_Any(role, msg) == TRUE

\* the match on the first message: the host wants Hello, the client Welcome
FirstFrameOk(role, msg) == msg = (IF role = "host" THEN "Hello" ELSE "Welcome")

\* host_session / client_session: the first frame is read; the host answers
\* Hello with Welcome; run_peer_session then subscribes and starts its timers
PeerHandshake(wrote) ==
    /\ peer_pc = "handshake"
    /\ LET f == peer_inbound
           r == read_peer_message(f)
       IN /\ \/ f.part = "all"
             \/ f.part = "prefix" /\ FrameTooLarge(from_be_bytes(f.len_buf))
          /\ peer_arm' = "handshake"
          /\ peer_alloc' = r.alloc
          /\ UNCHANGED <<peer_forwarded, delay_secs>>
          /\ IF r.err # ""
             THEN Returned(r.err) /\ UNCHANGED peer_out
             ELSE IF ~FirstFrameOk(peer_role, r.msg)
             THEN Returned("unexpected first message") /\ UNCHANGED peer_out
             ELSE IF peer_role = "host" /\ ~wrote
             THEN Returned("write_peer_message") /\ UNCHANGED peer_out
             ELSE /\ peer_out' = IF peer_role = "host"
                                 THEN peer_out \cup {"Welcome"} ELSE peer_out
                  /\ peer_pc' = "session"
                  /\ peer_subscribed' = TRUE
                  /\ peer_updates' = 0
                  /\ since_pong' = 0
                  /\ hb_left' = 0
                  /\ peer_inbound' = NoFrame
                  /\ peer_reading' = FALSE
                  /\ UNCHANGED <<peer_result, hb_streak, wait_left, wait_secs>>
    /\ UNCHANGED <<peer_role, peer_cancel, discVars, outerVars>>

\* run_peer_session, arm 1: the token has fired
ArmCancel ==
    /\ peer_pc = "session"
    /\ peer_cancel
    /\ peer_arm' = "cancel"
    /\ peer_alloc' = 0
    /\ Returned("ok")
    /\ UNCHANGED <<peer_role, peer_cancel, delay_secs, peer_forwarded,
                   peer_out, discVars, outerVars>>

\* run_peer_session, arm 2: the heartbeat tick writes a Ping
ArmTick(wrote) ==
    /\ peer_pc = "session"
    /\ hb_left = 0
    /\ peer_arm' = "tick"
    /\ peer_alloc' = 0
    /\ IF wrote
       THEN /\ UNCHANGED peer_out
            /\ Iterated(since_pong, HEARTBEAT_INTERVAL_SECS, peer_updates,
                        AfterDrop)
       ELSE /\ Returned("failed to send ping")
            /\ UNCHANGED peer_out
    /\ UNCHANGED <<peer_role, peer_cancel, delay_secs, peer_forwarded,
                   discVars, outerVars>>

\* run_peer_session, arm 3: an update of the fan-out is written as a
\* Clipboard frame
ArmSend(wrote) ==
    /\ peer_pc = "session"
    /\ peer_updates > 0
    /\ peer_arm' = "send"
    /\ peer_alloc' = 0
    /\ IF wrote
       THEN /\ UNCHANGED peer_out
            /\ Iterated(since_pong, hb_left, peer_updates - 1, AfterDrop)
       ELSE /\ Returned("failed to send clipboard")
            /\ UNCHANGED peer_out
    /\ UNCHANGED <<peer_role, peer_cancel, delay_secs, peer_forwarded,
                   discVars, outerVars>>

\* run_peer_session, arm 4, first half: the read takes the prefix of a frame
\* whose payload has not arrived, tests it and allocates the payload buffer
ArmReadPrefix ==
    /\ peer_pc = "session"
    /\ ~peer_reading
    /\ peer_inbound.part = "prefix"
    /\ LET len == from_be_bytes(peer_inbound.len_buf) IN
       IF FrameTooLarge(len)
       THEN /\ peer_arm' = "readerr"
            /\ peer_alloc' = 0
            /\ Returned("frame too large")
       ELSE /\ peer_arm' = "prefix"
            /\ peer_alloc' = len
            /\ peer_reading' = TRUE
            /\ UNCHANGED <<peer_pc, peer_inbound, peer_updates, since_pong,
                           hb_left, wait_left, wait_secs, peer_result,
                           peer_subscribed, hb_streak>>
    /\ UNCHANGED <<peer_role, peer_cancel, delay_secs, peer_forwarded,
                   peer_out, discVars, outerVars>>

\* run_peer_session, arm 4: a frame is read whole and dispatched
ArmRead(wrote) ==
    /\ peer_pc = "session"
    /\ peer_inbound.part = "all"
    /\ LET r == read_peer_message(peer_inbound)
           rest == NoFrame
       IN /\ peer_alloc' = r.alloc
          /\ peer_arm' = IF r.err # "" THEN "readerr" ELSE r.msg
          /\ CASE r.err # "" ->
                    /\ Returned(r.err)
                    /\ UNCHANGED <<peer_out, peer_forwarded>>
               [] r.msg = "Ping" /\ wrote ->
                    /\ Iterated(since_pong, hb_left, peer_updates, rest)
                    /\ UNCHANGED <<peer_out, peer_forwarded>>
               [] r.msg = "Ping" /\ ~wrote ->
                    /\ Returned("failed to send pong")
                    /\ UNCHANGED <<peer_out, peer_forwarded>>
               [] r.msg = "Pong" ->
                    /\ Iterated(0, hb_left, peer_updates, rest)
                    /\ UNCHANGED <<peer_out, peer_forwarded>>
               [] r.msg = "Clipboard" ->
                    /\ peer_forwarded' = TRUE
                    /\ Iterated(since_pong, hb_left, peer_updates, rest)
                    /\ UNCHANGED peer_out
               [] OTHER ->
                    /\ Iterated(since_pong, hb_left, peer_updates, rest)
                    /\ UNCHANGED <<peer_out, peer_forwarded>>
    /\ UNCHANGED <<peer_role, peer_cancel, delay_secs, discVars, outerVars>>

\* the next frame the remote wrote arrives, its prefix or all of it
RemoteSends(f) ==
    /\ peer_pc \in {"handshake", "session"}
    /\ peer_inbound = NoFrame
    /\ peer_inbound' = f
    /\ peer_arm' = "none"
    /\ peer_alloc' = 0
    /\ UNCHANGED <<peer_role, peer_pc, peer_cancel, peer_updates, since_pong,
                   hb_left, delay_secs, wait_left, wait_secs, peer_result,
                   peer_subscribed, peer_forwarded, peer_out, peer_reading,
                   hb_streak, discVars, outerVars>>

\* the rest of the frame arrives
RemoteCompletes ==
    /\ peer_inbound # NoFrame
    /\ peer_inbound.part # "all"
    /\ peer_inbound' = [peer_inbound EXCEPT !.part = "all"]
    /\ peer_arm' = "none"
    /\ peer_alloc' = 0
    /\ UNCHANGED <<peer_role, peer_pc, peer_cancel, peer_updates, since_pong,
                   hb_left, delay_secs, wait_left, wait_secs, peer_result,
                   peer_subscribed, peer_forwarded, peer_out, peer_reading,
                   hb_streak, discVars, outerVars>>

\* the monitor broadcasts an update, which the subscription of the session
\* receives
PeerLocalCopy ==
    /\ peer_subscribed
    /\ peer_updates = 0
    /\ peer_updates' = 1
    /\ peer_arm' = "none"
    /\ peer_alloc' = 0
    /\ UNCHANGED <<peer_role, peer_pc, peer_cancel, peer_inbound, since_pong,
                   hb_left, delay_secs, wait_left, wait_secs, peer_result,
                   peer_subscribed, peer_forwarded, peer_out, peer_reading,
                   hb_streak, discVars, outerVars>>

\* LAN mode is stopped: the token fires
PeerCancel ==
    /\ peer_pc \notin {"stopped", "closed"}
    /\ ~peer_cancel
    /\ peer_cancel' = TRUE
    /\ peer_arm' = "none"
    /\ peer_alloc' = 0
    /\ UNCHANGED <<peer_role, peer_pc, peer_inbound, peer_updates, since_pong,
                   hb_left, delay_secs, wait_left, wait_secs, peer_result,
                   peer_subscribed, peer_forwarded, peer_out, peer_reading,
                   hb_streak, discVars, outerVars>>

\* a second passes with the end waiting: in its sleep, or in the select with
\* no arm ready
PeerTick ==
    /\ ~peer_cancel
    /\ \/ peer_pc = "wait" /\ wait_left > 0
       \/ /\ peer_pc = "session"
          /\ hb_left > 0
          /\ peer_updates = 0
          /\ ~ReadReady
    /\ wait_left' = IF peer_pc = "wait" THEN wait_left - 1 ELSE wait_left
    /\ hb_left' = IF peer_pc = "session" THEN hb_left - 1 ELSE hb_left
    /\ since_pong' = IF peer_pc = "session"
                     THEN Min(since_pong + 1, SatTimeout) ELSE since_pong
    /\ peer_arm' = "none"
    /\ peer_alloc' = 0
    /\ UNCHANGED <<peer_role, peer_pc, peer_cancel, peer_inbound, peer_updates,
                   delay_secs, wait_secs, peer_result, peer_subscribed,
                   peer_forwarded, peer_out, peer_reading, hb_streak,
                   discVars, outerVars>>

\* a client task about to connect, or a host session just accepted
InitPeer ==
    /\ ServerOff
    /\ DiscOff
    /\ StartOff
    /\ BusOff
    /\ FanOff
    /\ CfgOff
    /\ RcvOff
    /\ peer_role \in {"client", "host"}
    /\ peer_pc = IF peer_role = "client" THEN "connecting" ELSE "handshake"
    /\ peer_cancel = FALSE
    /\ peer_inbound = NoFrame
    /\ peer_updates = 0
    /\ since_pong = 0
    /\ hb_left = 0
    /\ delay_secs = INITIAL_RECONNECT_DELAY_SECS
    /\ wait_left = 0
    /\ wait_secs = 0
    /\ peer_result = "none"
    /\ peer_subscribed = FALSE
    /\ peer_forwarded = FALSE
    /\ peer_out = {}
    /\ peer_alloc = 0
    /\ peer_arm = "none"
    /\ peer_reading = FALSE
    /\ hb_streak = 0

NextPeer ==
    \/ \E ok \in BOOLEAN, wrote \in BOOLEAN : PeerConnected(ok, wrote)
    \/ PeerStops
    \/ PeerWaitDone
    \/ \E wrote \in BOOLEAN : PeerHandshake(wrote)
    \/ ArmCancel
    \/ \E wrote \in BOOLEAN : ArmTick(wrote)
    \/ \E wrote \in BOOLEAN : ArmSend(wrote)
    \/ ArmReadPrefix
    \/ \E wrote \in BOOLEAN : ArmRead(wrote)
    \/ \E f \in InboundFrames : RemoteSends(f)
    \/ RemoteCompletes
    \/ PeerLocalCopy
    \/ PeerCancel
    \/ PeerTick

SpecPeer == InitPeer /\ [][NextPeer]_vars

\* ---- C23: heartbeat timeout ----------------------------------------------

\* the step is a loop iteration of run_peer_session: one of its arms ran
\* (peer_arm is "none" for a step of the remote, of the monitor or of time,
\* and "prefix" for a read that is still pending)
LoopIteration ==
    /\ peer_pc = "session"
    /\ peer_arm' \in {"tick", "send", "cancel", "readerr"} \cup PeerMessages

\* the errors an arm returns by itself, before the loop comes round
ArmErrors ==
    {"failed to send ping", "failed to send pong", "failed to send clipboard",
     "frame too large", "deserialising PeerMessage"}

\* what one loop iteration does with the time since the last Pong
C23_Iteration ==
    LoopIteration =>
       \* the session goes on only with a Pong seen in the last 15 s, and
       \* only a Pong resets that time: a Ping, a Clipboard frame, a tick or
       \* a send leave it alone
       /\ peer_pc' = "session" =>
             /\ since_pong' <= HEARTBEAT_TIMEOUT_SECS
             /\ since_pong' = IF peer_arm' = "Pong" THEN 0 ELSE since_pong
       \* with more than 15 s gone the iteration ends the session, with the
       \* heartbeat error unless the arm failed by itself, the token had
       \* fired or the frame read was the Pong
       /\ since_pong > HEARTBEAT_TIMEOUT_SECS /\ peer_arm' \notin {"Pong", "cancel"} =>
             /\ peer_pc' # "session"
             /\ peer_result' \in {"heartbeat timeout"} \cup ArmErrors
       /\ since_pong > HEARTBEAT_TIMEOUT_SECS
             /\ peer_arm' \in {"Ping", "Clipboard", "Hello", "Welcome"}
             /\ peer_result' \notin ArmErrors =>
             peer_result' = "heartbeat timeout"
       \* the heartbeat error is given for no other reason
       /\ peer_pc' # "session" /\ peer_result' = "heartbeat timeout" =>
             /\ since_pong > HEARTBEAT_TIMEOUT_SECS
             /\ peer_arm' # "Pong"
       \* after it the client sleeps its delay and then connects again
       /\ peer_pc' # "session" /\ peer_result' = "heartbeat timeout"
             /\ peer_role = "client" /\ ~peer_cancel =>
             /\ peer_pc' = "wait"
             /\ wait_left' = delay_secs
             /\ wait_left' >= INITIAL_RECONNECT_DELAY_SECS

\* a session past the deadline meets its next iteration before another
\* heartbeat interval is over
C23_Noticed ==
    peer_pc = "session" /\ since_pong > HEARTBEAT_TIMEOUT_SECS =>
        hb_left < HEARTBEAT_INTERVAL_SECS

\* a sleeping client leaves its sleep only to connect again or to stop
C23_Reconnects ==
    peer_pc = "wait" /\ peer_pc' # "wait" =>
        \/ peer_pc' = "connecting" /\ wait_left = 0
        \/ peer_pc' = "stopped" /\ peer_cancel

\* C23: a peer session that has seen no Pong for more than 15 s ends with
\* the error "heartbeat timeout" at its next loop iteration, also when that
\* iteration read a Ping or a Clipboard frame, and the client then sleeps and
\* connects again; a session whose last Pong is at most 15 s old never ends
\* with that error.
C23_HeartbeatTimeout ==
    [][C23_Iteration /\ C23_Noticed' /\ C23_Reconnects]_vars

\* a client's session was ended by the heartbeat test on the iteration that
\* read a Clipboard frame, and the client sleeps before it reconnects
C23_Witness ==
    /\ peer_role = "client"
    /\ peer_pc = "wait"
    /\ peer_result = "heartbeat timeout"
    /\ peer_arm = "Clipboard"
    /\ peer_forwarded

\* ---- C24: scenario S6, heartbeat death ------------------------------------

\* C24: when the remote of a client session still accepts connections and
\* completes the handshake but answers no Ping, each session ends with
\* "heartbeat timeout" and the waits after the first, second and third such
\* session in a row are 1 s, 2 s and 4 s.
C24_BackoffProgresses ==
    peer_role = "client" /\ peer_pc = "wait" /\ hb_streak >= 1 =>
        wait_secs = 2 ^ (hb_streak - 1)

\* C24 (as amended): in that scenario each session ends with "heartbeat
\* timeout" and the wait after each of them, the first, the second and the
\* third in a row alike, is 1 s, because every successful connect resets the
\* delay; a wait longer than 1 s only follows a failed TCP connect.
C24_WaitsAfterTimeout ==
    peer_role = "client" /\ peer_pc = "wait" =>
        /\ hb_streak >= 1 <=> peer_result = "heartbeat timeout"
        /\ peer_result # "connect failed" => wait_secs = INITIAL_RECONNECT_DELAY_SECS

\* the third session in a row has ended by heartbeat timeout and the client
\* waits one second
C24_Witness ==
    /\ peer_role = "client"
    /\ peer_pc = "wait"
    /\ hb_streak = 3
    /\ peer_result = "heartbeat timeout"
    /\ wait_secs = 1

\* ---- C25: frame bound -----------------------------------------------------

\* the step reads the length prefix of the frame at the head of the stream:
\* in the handshake, or in the inbound arm of the session when no earlier
\* step has taken it
PrefixRead ==
    /\ peer_pc \in {"handshake", "session"}
    /\ ~peer_reading
    /\ peer_arm' \in {"handshake", "prefix", "readerr"} \cup PeerMessages

\* what the read of a prefix leads to
C25_Bound ==
    PrefixRead =>
        LET len == from_be_bytes(peer_inbound.len_buf) IN
        IF len > 16 * 2^20
        THEN \* refused: no buffer, the connection is over with that error,
             \* nothing is forwarded and no session is entered
             /\ peer_alloc' = 0
             /\ peer_pc' \notin {"handshake", "session"}
             /\ peer_result' = "frame too large"
             /\ peer_forwarded' = peer_forwarded
             /\ ~peer_subscribed'
        ELSE \* accepted: a buffer of that size is allocated and the payload
             \* is read into it, at once when it has arrived
             /\ peer_alloc' = len
             /\ peer_result' # "frame too large"
             /\ peer_inbound.part = "prefix" =>
                   /\ peer_reading'
                   /\ peer_inbound' = peer_inbound
             /\ peer_inbound.part = "all" =>
                   /\ peer_inbound' = NoFrame
                   /\ peer_inbound.body \in PeerMessages =>
                         peer_result' # "deserialising PeerMessage"

\* C25: for every inbound frame, in the handshake and in steady state, a
\* length prefix greater than 16 * 2^20 makes the read fail and the connection
\* close with no payload buffer allocated, and a prefix of 16 * 2^20 or less
\* is accepted: the buffer is allocated and the payload read.
C25_FrameBound == [][C25_Bound]_vars

\* a session that had accepted and forwarded a Clipboard frame has refused
\* the next frame for its prefix, without a buffer
C25_Witness ==
    /\ peer_result = "frame too large"
    /\ peer_arm = "readerr"
    /\ peer_alloc = 0
    /\ peer_forwarded
    /\ peer_pc \in {"wait", "closed"}

\* ---- C29: handshake gating ------------------------------------------------

\* the first frame of the connection is the message the role waits for
FirstIsExpected ==
    /\ peer_inbound.part = "all"
    /\ from_be_bytes(peer_inbound.len_buf) <= MAX_FRAME_SIZE
    /\ peer_inbound.body = IF peer_role = "host" THEN "Hello" ELSE "Welcome"

C29_Gate ==
    \* the steady-state loop is entered from the handshake only, on the
    \* expected first frame, with the own handshake message written
    /\ peer_pc # "session" /\ peer_pc' = "session" =>
          /\ peer_pc = "handshake"
          /\ FirstIsExpected
          /\ IF peer_role = "host"
             THEN "Welcome" \notin peer_out /\ "Welcome" \in peer_out'
             ELSE "Hello" \in peer_out
          /\ peer_subscribed'
    \* any other first frame, or one that does not decode, closes the
    \* connection with no subscription and nothing forwarded
    /\ peer_pc = "handshake" /\ peer_arm' = "handshake" /\ ~FirstIsExpected =>
          /\ peer_pc' \in {"wait", "stopped", "closed"}
          /\ peer_result' \in {"unexpected first message", "frame too large",
                               "deserialising PeerMessage"}
          /\ ~peer_subscribed'
          /\ ~peer_forwarded'
          /\ peer_out' = peer_out
    \* heartbeat, clipboard send and dispatch belong to the steady state
    /\ peer_arm' \in {"tick", "send", "prefix"} \cup PeerMessages =>
          peer_pc = "session"
    /\ peer_forwarded' /\ ~peer_forwarded => peer_pc = "session"

\* a subscription or a pending update exists in the steady state only
C29_Subscribed ==
    /\ peer_subscribed <=> peer_pc = "session"
    /\ peer_pc # "session" => peer_updates = 0 /\ ~peer_reading
    /\ peer_pc = "handshake" => ~peer_forwarded

\* C29: a peer session enters the steady-state loop on the host side only
\* after the first frame received is Hello and Welcome was written, on the
\* client side only after Hello was written and the first frame received is
\* Welcome; a first frame of another type or one that fails to decode closes
\* the connection without a subscription to the fan-out and without anything
\* forwarded to the applier.
C29_HandshakeGating == [][C29_Gate /\ C29_Subscribed']_vars

\* a host session was closed because its first frame was not Hello
C29_Witness ==
    /\ peer_role = "host"
    /\ peer_pc = "closed"
    /\ peer_arm = "handshake"
    /\ peer_result = "unexpected first message"
    /\ ~peer_subscribed
    /\ ~peer_forwarded

\* ---- start and shutdown of LAN mode (runtime/lan/mod.rs) ------------------

\* what the actions of this part leave alone
lanRest == <<discVars, peerVars, busVars, fanVars, cfgVars, rcvVars, serverVars>>

\* start_lan_mode: bind_reusable_udp returns the socket or None
LanBindUdp(ok) ==
    /\ lan_pc = "idle"
    /\ udp_socket' = ok
    /\ lan_pc' = IF ok THEN "binding_tcp" ELSE "failed_udp"
    /\ UNCHANGED <<tcp_listener, core, lan_token, await_idx, client_task,
                   lan_taken, host_task, lanRest>>

LanBindTcp_Leaky(ok) ==
    /\ lan_pc = "binding_tcp"
    /\ tcp_listener' = ok
    /\ lan_pc' = IF ok THEN "bound" ELSE "failed_tcp"
    /\ UNCHANGED <<udp_socket, core, lan_token, await_idx, client_task,
                   lan_taken, host_task, lanRest>>

\* start_lan_mode: TcpListener::bind; on an error `?` returns and the UDP
\* socket, a local of the function, is dropped
LanBindTcp(ok) ==
    /\ lan_pc = "binding_tcp"
    /\ tcp_listener' = ok
    /\ udp_socket' = ok
    /\ lan_pc' = IF ok THEN "bound" ELSE "failed_tcp"
    /\ UNCHANGED <<core, lan_token, await_idx, client_task, lan_taken,
                   host_task, lanRest>>

\* start_lan_mode: the six tokio::spawn calls and the return of LanTasks
LanSpawn ==
    /\ lan_pc = "bound"
    /\ core' = [t \in CoreTasks |-> "running"]
    /\ lan_pc' = "started"
    /\ UNCHANGED <<udp_socket, tcp_listener, lan_token, await_idx,
                   client_task, lan_taken, host_task, lanRest>>

\* a core task returns once the token has fired; the listener and the host
\* take their socket with them
CoreEnds(t) ==
    /\ core[t] = "running"
    /\ lan_token
    /\ core' = [core EXCEPT ![t] = "done"]
    /\ udp_socket' = IF t = "listener" THEN FALSE ELSE udp_socket
    /\ tcp_listener' = IF t = "host" THEN FALSE ELSE tcp_listener
    /\ UNCHANGED <<lan_pc, lan_token, await_idx, client_task, lan_taken,
                   host_task, lanRest>>

\* run_peer_connector: a client task is spawned and its handle pushed to
\* dynamic_handles
ConnectorSpawns(i) ==
    /\ core["connector"] = "running"
    /\ client_task[i] = "none"
    /\ \A k \in 1..(i - 1) : client_task[k] # "none"
    /\ client_task' = [client_task EXCEPT ![i] = "connecting"]
    /\ UNCHANGED <<lan_pc, udp_socket, tcp_listener, core, lan_token,
                   await_idx, lan_taken, host_task, lanRest>>

\* the accept loop of the TCP host: a session task is spawned for the
\* accepted connection and its handle dropped
HostAccepts(j) ==
    /\ core["host"] = "running"
    /\ host_task[j] = "none"
    /\ \A k \in 1..(j - 1) : host_task[k] # "none"
    /\ host_task' = [host_task EXCEPT ![j] = "handshake"]
    /\ UNCHANGED <<lan_pc, udp_socket, tcp_listener, core, lan_token,
                   await_idx, lan_taken, client_task, lanRest>>

\* where a client task can go next. It tests the token in its loop condition,
\* while connecting, in the steady-state select and while sleeping; it does
\* not while it reads the Welcome or is inside a write
ClientNext(s, token) ==
    LET over == IF token THEN "done" ELSE "wait" IN
    CASE s = "connecting" -> IF token THEN {"done"} ELSE {"handshake", over}
      [] s = "handshake"  -> {"session", over}
      [] s = "session"    -> {"writing", over}
      [] s = "writing"    -> {"session", over}
      [] s = "wait"       -> IF token THEN {"done"} ELSE {"connecting"}
      [] OTHER            -> {}

\* where a host session task can go next: it tests the token in the
\* steady-state select only
HostNext(s, token) ==
    CASE s = "handshake" -> {"session", "done"}
      [] s = "session"   -> {"writing", "done"}
      [] s = "writing"   -> {"session", "done"}
      [] OTHER           -> {}

\* a client task moves on
ClientStep(i, to) ==
    /\ to \in ClientNext(client_task[i], lan_token)
    /\ client_task' = [client_task EXCEPT ![i] = to]
    /\ UNCHANGED <<lan_pc, udp_socket, tcp_listener, core, lan_token,
                   await_idx, lan_taken, host_task, lanRest>>

\* a host session task moves on
HostStep(j, to) ==
    /\ to \in HostNext(host_task[j], lan_token)
    /\ host_task' = [host_task EXCEPT ![j] = to]
    /\ UNCHANGED <<lan_pc, udp_socket, tcp_listener, core, lan_token,
                   await_idx, lan_taken, client_task, lanRest>>

\* LanTasks::shutdown: cancel.cancel(), then the first handle is awaited
LanShutdown ==
    /\ lan_pc = "started"
    /\ lan_token' = TRUE
    /\ lan_pc' = "shutting"
    /\ await_idx' = 1
    /\ UNCHANGED <<udp_socket, tcp_listener, core, client_task, lan_taken,
                   host_task, lanRest>>

\* LanTasks::shutdown: the awaited core task is over; after the last one
\* dynamic_handles is taken
LanAwaitCore ==
    /\ lan_pc = "shutting"
    /\ core[CoreOrder[await_idx]] = "done"
    /\ IF await_idx < Len(CoreOrder)
       THEN /\ await_idx' = await_idx + 1
            /\ UNCHANGED <<lan_pc, lan_taken>>
       ELSE LET dynamic == {i \in 1..MaxClientTasks : client_task[i] # "none"} IN
            /\ await_idx' = 0
            /\ lan_taken' = dynamic
            /\ lan_pc' = IF dynamic = {} THEN "down" ELSE "taken"
    /\ UNCHANGED <<udp_socket, tcp_listener, core, lan_token, client_task,
                   host_task, lanRest>>

\* LanTasks::shutdown: the awaited client task is over; after the last one
\* shutdown returns
LanAwaitClient ==
    /\ lan_pc = "taken"
    /\ LET i == CHOOSE k \in lan_taken : \A m \in lan_taken : k <= m IN
       /\ client_task[i] = "done"
       /\ lan_taken' = lan_taken \ {i}
       /\ lan_pc' = IF lan_taken = {i} THEN "down" ELSE "taken"
    /\ UNCHANGED <<udp_socket, tcp_listener, core, lan_token, await_idx,
                   client_task, host_task, lanRest>>

InitLan ==
    /\ ServerOff
    /\ DiscOff
    /\ PeerOff
    /\ BusOff
    /\ FanOff
    /\ CfgOff
    /\ RcvOff
    /\ StartOff

NextLan ==
    \/ \E ok \in BOOLEAN : LanBindUdp(ok)
    \/ \E ok \in BOOLEAN : LanBindTcp(ok)
    \/ LanSpawn
    \/ \E t \in CoreTasks : CoreEnds(t)
    \/ \E i \in 1..MaxClientTasks : ConnectorSpawns(i)
    \/ \E j \in 1..MaxHostSessions : HostAccepts(j)
    \/ \E i \in 1..MaxClientTasks, to \in {"handshake", "session", "writing", "wait", "connecting", "done"} :
          ClientStep(i, to)
    \/ \E j \in 1..MaxHostSessions, to \in {"session", "writing", "done"} :
          HostStep(j, to)
    \/ LanShutdown
    \/ LanAwaitCore
    \/ LanAwaitClient

SpecLan == InitLan /\ [][NextLan]_vars

\* ---- C26: LAN start is all-or-nothing -------------------------------------

NoLanTask ==
    /\ \A t \in CoreTasks : core[t] = "none"
    /\ \A i \in 1..MaxClientTasks : client_task[i] = "none"
    /\ \A j \in 1..MaxHostSessions : host_task[j] = "none"

C26_State ==
    \* before both binds are done, and after a failed bind, no task exists
    /\ lan_pc \in {"idle", "binding_tcp", "bound", "failed_udp", "failed_tcp"} =>
          NoLanTask
    \* a failed start leaves no socket bound
    /\ lan_pc \in {"failed_udp", "failed_tcp"} => ~udp_socket /\ ~tcp_listener
    \* a start that returned LanTasks has spawned all six
    /\ lan_pc = "started" => \A t \in CoreTasks : core[t] = "running"

\* the core tasks are spawned together, with both sockets bound
C26_Spawn ==
    (\E t \in CoreTasks : core[t] = "none" /\ core'[t] # "none") =>
        /\ lan_pc = "bound"
        /\ udp_socket /\ tcp_listener
        /\ \A t \in CoreTasks : core[t] = "none" /\ core'[t] = "running"

\* C26: start_lan_mode binds the UDP discovery socket and the TCP listener
\* before it spawns anything; if either bind fails it returns the error with no
\* task spawned and no socket left bound; if both succeed all six core tasks
\* are spawned.
C26_AllOrNothing == [][C26_Spawn /\ C26_State']_vars

\* the TCP bind failed after the UDP bind had succeeded: nothing runs and the
\* UDP socket is released
C26_Witness ==
    /\ lan_pc = "failed_tcp"
    /\ ~udp_socket
    /\ ~tcp_listener
    /\ NoLanTask

\* ---- C27: cancellation and drain ------------------------------------------

Over(s) == s \in {"none", "done"}

\* C27: when LanTasks::shutdown has returned, every task LAN mode created
\* has terminated: the six core tasks, the client tasks of the connector and
\* the session tasks of the TCP host, also those waiting for the handshake
\* message or inside a write.
C27_ShutdownDrains ==
    lan_pc = "down" =>
        /\ \A t \in CoreTasks : core[t] = "done"
        /\ \A i \in 1..MaxClientTasks : Over(client_task[i])
        /\ \A j \in 1..MaxHostSessions : Over(host_task[j])

\* the part that holds: the tasks whose handles LanTasks keeps
HandlesDrained ==
    lan_pc = "down" =>
        /\ \A t \in CoreTasks : core[t] = "done"
        /\ \A i \in 1..MaxClientTasks : Over(client_task[i])

\* shutdown never returns while a client task waits for its Welcome
ShutdownWaitsForClient ==
    (\E i \in 1..MaxClientTasks : client_task[i] \in {"handshake", "writing"}) =>
        lan_pc # "down"

\* ---- the event bus: spawn_runtime, the senders and the UI's receiver -------

\* mpsc::channel(512)
EVENT_CAPACITY == 512

\* the capacity the bus is explored with, and the Connection events one
\* producer sends
MaxBus == 2
MaxEvents == 3

Capacity == Min(EVENT_CAPACITY, MaxBus)

EventKinds == {"Connection", "Log"}

\* a sender that gives up when the channel is full (try_send)
Offer_TrySend(q, e) ==
    [bus |-> IF Len(q) < Capacity THEN Append(q, e) ELSE q, accepted |-> TRUE]

\* events.send(e).await: the event enters the channel when there is room;
\* when there is none the send keeps the event and waits for a permit
Offer(q, e) ==
    IF Len(q) < Capacity
    THEN [bus |-> Append(q, e), accepted |-> TRUE]
    ELSE [bus |-> q, accepted |-> FALSE]

\* a producer reaches one of its `let _ = events.send(..).await`: the
\* supervisor in emit_connection and emit_log, the connection task in
\* run_connection_loop
BusSend(p, kind) ==
    /\ bus_alive[p]
    /\ bus_pending[p] = NoEvent
    /\ kind = "Connection" => bus_started[p] < MaxEvents
    /\ LET n == IF kind = "Connection" THEN bus_started[p] + 1 ELSE 0
           e == [src |-> p, kind |-> kind, n |-> n]
           r == Offer(bus_queue, e)
       IN /\ bus_started' = [bus_started EXCEPT ![p] = Max(@, n)]
          /\ bus_queue' = r.bus
          /\ bus_pending' = [bus_pending EXCEPT
                                ![p] = IF r.accepted THEN NoEvent ELSE e]
    /\ UNCHANGED <<bus_got, bus_alive, bus_aborted>>
    /\ UNCHANGED <<serverVars, discVars, peerVars, startVars, fanVars, cfgVars, rcvVars>>

\* a waiting send is woken because the receiver took an event
BusPermit(p) ==
    /\ bus_pending[p] # NoEvent
    /\ Len(bus_queue) < Capacity
    /\ LET r == Offer(bus_queue, bus_pending[p])
       IN /\ bus_queue' = r.bus
          /\ bus_pending' = [bus_pending EXCEPT
                                ![p] = IF r.accepted THEN NoEvent ELSE @]
    /\ UNCHANGED <<bus_started, bus_got, bus_alive, bus_aborted>>
    /\ UNCHANGED <<serverVars, discVars, peerVars, startVars, fanVars, cfgVars, rcvVars>>

\* the UI's task: while let Some(event) = event_rx.recv().await
BusRecv ==
    /\ bus_queue # <<>>
    /\ LET e == Head(bus_queue)
       IN bus_got' = IF e.kind = "Connection"
                     THEN [bus_got EXCEPT ![e.src] = Append(@, e.n)]
                     ELSE bus_got
    /\ bus_queue' = Tail(bus_queue)
    /\ UNCHANGED <<bus_pending, bus_started, bus_alive, bus_aborted>>
    /\ UNCHANGED <<serverVars, discVars, peerVars, startVars, fanVars, cfgVars, rcvVars>>

\* stop_tasks, run by the supervisor between two of its own sends: a hard
\* stop aborts the connection task, whose waiting send is dropped with it; a
\* soft stop awaits the task, which returns after its last send
BusStop(hard) ==
    /\ bus_alive["connection"]
    /\ bus_pending["supervisor"] = NoEvent
    /\ hard \/ bus_pending["connection"] = NoEvent
    /\ bus_alive' = [bus_alive EXCEPT !["connection"] = FALSE]
    /\ bus_aborted' = [bus_aborted EXCEPT !["connection"] =
                          IF bus_pending["connection"].kind = "Connection"
                          THEN @ \cup {bus_pending["connection"].n} ELSE @]
    /\ bus_pending' = [bus_pending EXCEPT !["connection"] = NoEvent]
    /\ UNCHANGED <<bus_queue, bus_started, bus_got>>
    /\ UNCHANGED <<serverVars, discVars, peerVars, startVars, fanVars, cfgVars, rcvVars>>

\* start_tasks spawns a new connection task
BusStart ==
    /\ ~bus_alive["connection"]
    /\ bus_pending["supervisor"] = NoEvent
    /\ bus_alive' = [bus_alive EXCEPT !["connection"] = TRUE]
    /\ UNCHANGED <<bus_queue, bus_pending, bus_started, bus_got, bus_aborted>>
    /\ UNCHANGED <<serverVars, discVars, peerVars, startVars, fanVars, cfgVars, rcvVars>>

InitBus ==
    /\ ServerOff
    /\ DiscOff
    /\ PeerOff
    /\ StartOff
    /\ BusOff
    /\ FanOff
    /\ CfgOff
    /\ RcvOff

NextBus ==
    \/ \E p \in Producers, kind \in EventKinds : BusSend(p, kind)
    \/ \E p \in Producers : BusPermit(p)
    \/ BusRecv
    \/ \E hard \in BOOLEAN : BusStop(hard)
    \/ BusStart

SpecBus == InitBus /\ [][NextBus]_vars

\* ---- C28: Connection events are not dropped on a full bus -----------------

\* 1, 2, .. n without the numbers in skip
RECURSIVE Ascending(_, _)
Ascending(n, skip) ==
    IF n = 0 THEN <<>>
    ELSE Ascending(n - 1, skip) \o (IF n \in skip THEN <<>> ELSE <<n>>)

RECURSIVE ConnectionsOf(_, _)
ConnectionsOf(p, q) ==
    IF q = <<>> THEN <<>>
    ELSE (IF Head(q).src = p /\ Head(q).kind = "Connection"
          THEN <<Head(q).n>> ELSE <<>>) \o ConnectionsOf(p, Tail(q))

\* the Connection events of p that the UI has, then those in the channel,
\* then the one whose send is waiting
Accounted(p) ==
    bus_got[p] \o ConnectionsOf(p, bus_queue) \o ConnectionsOf(p, <<bus_pending[p]>>)

AllDelivered ==
    /\ \A p \in Producers : bus_got[p] = <<1, 2, 3>>
    /\ bus_aborted["connection"] = {}

\* ---- C31: the client's back-off -------------------------------------------

\* the delay is one of the values the doubling with ceiling produces
C31_Range ==
    /\ delay_secs \in INITIAL_RECONNECT_DELAY_SECS..MAX_RECONNECT_DELAY_SECS
    /\ peer_pc = "wait" =>
          /\ wait_secs = delay_secs
          /\ wait_left \in 0..wait_secs

\* the step starts a sleep of run_tcp_client
StartsWait == peer_role = "client" /\ peer_pc # "wait" /\ peer_pc' = "wait"

\* the length of the sleep a step starts: after a failed connect the first
\* sleep of the task is 1 s and every later one twice the sleep before it,
\* at most 30 s; after a connect that succeeded, whatever ended the session,
\* it is 1 s
C31_Waits ==
    StartsWait =>
        IF peer_pc = "connecting" /\ peer_result' = "connect failed"
        THEN wait_secs' = IF wait_secs = 0 THEN 1
                          ELSE IF wait_secs * 2 > 30 THEN 30 ELSE wait_secs * 2
        ELSE /\ wait_secs' = 1
             /\ delay_secs' = 1

\* once the token has fired no second of a sleep passes and no connect
\* follows: the task stops
C31_Abandoned ==
    peer_role = "client" /\ peer_pc = "wait" /\ peer_cancel =>
        \/ peer_pc' = "stopped"
        \/ UNCHANGED <<peer_pc, wait_left, delay_secs>>

\* C31: the reconnect delay of run_tcp_client is always within 1..30 s; on
\* consecutive failed connects the successive sleeps are 1, 2, 4, 8, 16, 30,
\* 30, .. s; a successful connect resets the delay, so that the sleep after
\* the end of that session is 1 s; and a sleep is abandoned as soon as the
\* token fires.
C31_Backoff ==
    [][C31_Range /\ C31_Range' /\ C31_Waits /\ C31_Abandoned]_vars

\* the seventh connect of a task is about to be made: six sleeps lie behind
\* it, the last of 30 s, and the ceiling has kept the delay at 30 s
C31_Witness ==
    /\ peer_role = "client"
    /\ peer_pc = "connecting"
    /\ wait_secs = 30
    /\ delay_secs = 30
    /\ peer_result = "connect failed"

\* ---- C32: peer table update and change reporting --------------------------

\* datagrams as the listener can receive them, among them beacons whose
\* name or port differs from what an entry of the table holds
VariedDatagrams ==
    Datagrams
      \cup {[magic |-> DISCOVERY_MAGIC, beacon |-> DiscoveryBeacon(id, "laptop", DEFAULT_TCP_PORT)] :
               id \in DeviceIds}
      \cup {[magic |-> DISCOVERY_MAGIC, beacon |-> DiscoveryBeacon(id, "pc", DEFAULT_TCP_PORT + 1)] :
               id \in DeviceIds}
      \cup {[magic |-> "RSCV_LAM", beacon |-> DiscoveryBeacon(id, "pc", DEFAULT_TCP_PORT)] :
               id \in DeviceIds}

\* the entry is in the table and older than the expiry
Expired(entry, now) == entry # NoPeer /\ now - entry.last_seen >= 15

\* what the table of agent a must be after datagram d from ip, and when an
\* event must have been sent
C32_Handled(a, d, ip) ==
    LET T == peers[a]
        own == own_device_id[a]
        h == HandleDatagram(T, own, d, ip, lan_now)
        b == d.beacon
        id == b.device_id
    IN  IF d.magic # "RSCV_LAN" \/ id = own
        THEN h.table = T /\ h.last.emits = 0
        ELSE IF b = NoBeacon
        THEN h.table = T /\ h.last.emits = 0
        ELSE /\ h.table[id] = [device_id |-> id, device_name |-> b.device_name,
                               addr |-> ip, tcp_port |-> b.tcp_port,
                               last_seen |-> lan_now]
             /\ \A other \in DeviceIds \ {id} :
                   h.table[other] = IF Expired(T[other], lan_now)
                                    THEN NoPeer ELSE T[other]
             /\ h.last.emits > 0 <=>
                   \/ T[id] = NoPeer
                   \/ T[id].device_name # b.device_name
                   \/ T[id].addr # ip
                   \/ T[id].tcp_port # b.tcp_port
                   \/ \E other \in DeviceIds \ {id} : Expired(T[other], lan_now)

SilentBump ==
    /\ disc_last["P1"] = [kind |-> "peer", changed |-> FALSE, pruned |-> 0, emits |-> 0]
    /\ lan_now > 0
    /\ \E id \in DeviceIds : peers["P1"][id].last_seen = lan_now

\* ---- the fan-out: broadcast::channel(100), its subscribers' send arms ------

\* broadcast::channel::<ClipboardUpdate>(100)
FANOUT_CAPACITY == 100

\* the ring the fan-out is explored with, and the updates the monitor sends
MaxRing == 2
MaxUpdates == 4

Ring == Min(FANOUT_CAPACITY, MaxRing)

\* the oldest update the channel still holds
Oldest(sent) == Max(sent - Ring + 1, 1)

\* rx_updates.recv() of a subscription whose next update is `next`: pending
\* when nothing newer was sent; Lagged(n), with the cursor moved to the
\* oldest update still held, when the ring has overwritten `next`; otherwise
\* Ok(update)
recv(sent, next) ==
    IF next > sent THEN [kind |-> "Pending", n |-> 0, next |-> next]
    ELSE IF next < Oldest(sent)
    THEN [kind |-> "Lagged", n |-> Oldest(sent) - next, next |-> Oldest(sent)]
    ELSE [kind |-> "Ok", n |-> next, next |-> next + 1]

RecvKinds == {"Ok", "Lagged", "Closed"}

\* a peer session for which lag is the end
OnRecv_Fatal(p, kind) ==
    IF kind = "Ok" THEN "write" ELSE IF kind = "Closed" THEN "return Ok" ELSE "break"

\* what the send arm of a session does with the result of recv():
\* run_peer_session writes on Ok, logs a Warn on Lagged and returns Ok(()) on
\* Closed; run_connection_loop writes on Ok and breaks on every Err
OnRecv(p, kind) ==
    IF p = "peer"
    THEN CASE kind = "Ok" -> "write"
           [] kind = "Lagged" -> "warn"
           [] kind = "Closed" -> "return Ok"
    ELSE IF kind = "Ok" THEN "write" ELSE "break"

\* a select that is entered while a write_all has not returned
ArmFree_Always(w) == TRUE

\* the select is entered when the arm before it has returned
ArmFree(w) == w = NoWrite

\* the session of path p is over
FanEnded(p, result) ==
    /\ fan_pc' = [fan_pc EXCEPT ![p] = "ended"]
    /\ fan_result' = [fan_result EXCEPT ![p] = result]
    /\ fan_writing' = [fan_writing EXCEPT ![p] = NoWrite]

\* write_all begins the frame f on the socket of path p
FanBegins(p, f) ==
    /\ fan_writing' = [fan_writing EXCEPT ![p] = f]
    /\ fan_torn' = [fan_torn EXCEPT ![p] = @ \/ fan_writing[p] # NoWrite]

\* the monitor broadcasts an update: tx.send never waits for a subscriber
FanSend ==
    /\ fan_sent < MaxUpdates
    /\ fan_sent' = fan_sent + 1
    /\ fan_arm' = NoArm
    /\ UNCHANGED <<fan_pc, fan_next, fan_from, fan_wire, fan_writing,
                   fan_warns, fan_result, fan_lagged, fan_torn>>
    /\ UNCHANGED <<serverVars, discVars, peerVars, startVars, busVars, cfgVars, rcvVars>>

\* tx_out.subscribe(): in run_connection_loop after the auth reply, in
\* run_peer_session after the handshake; the subscription starts behind the
\* newest update
FanSubscribe(p) ==
    /\ fan_pc[p] \in {"idle", "ended"}
    /\ fan_pc' = [fan_pc EXCEPT ![p] = "select"]
    /\ fan_next' = [fan_next EXCEPT ![p] = fan_sent + 1]
    /\ fan_from' = [fan_from EXCEPT ![p] = fan_sent]
    /\ fan_wire' = [fan_wire EXCEPT ![p] = <<>>]
    /\ fan_warns' = [fan_warns EXCEPT ![p] = 0]
    /\ fan_result' = [fan_result EXCEPT ![p] = "none"]
    /\ fan_lagged' = [fan_lagged EXCEPT ![p] = {}]
    /\ fan_torn' = [fan_torn EXCEPT ![p] = FALSE]
    /\ fan_arm' = [path |-> p, kind |-> "subscribe"]
    /\ UNCHANGED <<fan_sent, fan_writing>>
    /\ UNCHANGED <<serverVars, discVars, peerVars, startVars, busVars, cfgVars, rcvVars>>

\* the send arm of the select: outbound = rx_updates.recv()
FanRecvArm(p, wrote) ==
    /\ fan_pc[p] = "select"
    /\ ArmFree(fan_writing[p])
    /\ LET r == recv(fan_sent, fan_next[p])
           todo == OnRecv(p, r.kind)
       IN /\ r.kind # "Pending"
          /\ fan_next' = [fan_next EXCEPT ![p] = r.next]
          /\ fan_arm' = [path |-> p, kind |-> r.kind]
          /\ fan_lagged' = [fan_lagged EXCEPT ![p] =
                               IF r.kind = "Lagged"
                               THEN @ \cup (fan_next[p]..(r.next - 1)) ELSE @]
          /\ CASE todo = "write" /\ p = "peer" ->
                    \* write_all takes the frame in pieces
                    /\ FanBegins(p, [frame |-> "Clipboard", n |-> r.n])
                    /\ UNCHANGED <<fan_pc, fan_wire, fan_warns, fan_result>>
               [] todo = "write" /\ p = "server" /\ wrote ->
                    \* write.send(Message::Text(..)): one WebSocket message
                    /\ fan_wire' = [fan_wire EXCEPT ![p] = Append(@, r.n)]
                    /\ UNCHANGED <<fan_pc, fan_writing, fan_warns, fan_result,
                                   fan_torn>>
               [] todo = "write" /\ p = "server" /\ ~wrote ->
                    /\ FanEnded(p, "write error")
                    /\ UNCHANGED <<fan_wire, fan_warns, fan_torn>>
               [] todo = "warn" ->
                    /\ fan_warns' = [fan_warns EXCEPT ![p] = @ + 1]
                    /\ UNCHANGED <<fan_pc, fan_wire, fan_writing, fan_result,
                                   fan_torn>>
               [] todo = "break" ->
                    /\ FanEnded(p, "break")
                    /\ UNCHANGED <<fan_wire, fan_warns, fan_torn>>
               [] todo = "return Ok" ->
                    /\ FanEnded(p, "Ok")
                    /\ UNCHANGED <<fan_wire, fan_warns, fan_torn>>
    /\ UNCHANGED <<fan_sent, fan_from>>
    /\ UNCHANGED <<serverVars, discVars, peerVars, startVars, busVars, cfgVars, rcvVars>>

\* the heartbeat arm of a peer session writes a Ping, its read arm answers a
\* Ping with a Pong
FanHeartbeat(frame) ==
    /\ fan_pc["peer"] = "select"
    /\ ArmFree(fan_writing["peer"])
    /\ FanBegins("peer", [frame |-> frame, n |-> 0])
    /\ fan_arm' = [path |-> "peer", kind |-> frame]
    /\ UNCHANGED <<fan_sent, fan_pc, fan_next, fan_from, fan_wire, fan_warns,
                   fan_result, fan_lagged>>
    /\ UNCHANGED <<serverVars, discVars, peerVars, startVars, busVars, cfgVars, rcvVars>>

\* write_all returns: the rest of the frame is on the socket, or the write
\* failed and the session returns its error
FanWritten(ok) ==
    /\ fan_pc["peer"] = "select"
    /\ fan_writing["peer"] # NoWrite
    /\ fan_arm' = [path |-> "peer", kind |-> "written"]
    /\ IF ok
       THEN /\ fan_writing' = [fan_writing EXCEPT !["peer"] = NoWrite]
            /\ fan_wire' = [fan_wire EXCEPT !["peer"] =
                               IF fan_writing["peer"].frame = "Clipboard"
                               THEN Append(@, fan_writing["peer"].n) ELSE @]
            /\ UNCHANGED <<fan_pc, fan_result>>
       ELSE /\ FanEnded("peer", "write error")
            /\ UNCHANGED fan_wire
    /\ UNCHANGED <<fan_sent, fan_next, fan_from, fan_warns, fan_lagged,
                   fan_torn>>
    /\ UNCHANGED <<serverVars, discVars, peerVars, startVars, busVars, cfgVars, rcvVars>>

\* the session ends for another reason: the token, the remote, the heartbeat
FanCloses(p) ==
    /\ fan_pc[p] = "select"
    /\ ArmFree(fan_writing[p])
    /\ FanEnded(p, "closed")
    /\ fan_arm' = [path |-> p, kind |-> "closed"]
    /\ UNCHANGED <<fan_sent, fan_next, fan_from, fan_wire, fan_warns,
                   fan_lagged, fan_torn>>
    /\ UNCHANGED <<serverVars, discVars, peerVars, startVars, busVars, cfgVars, rcvVars>>

InitFan ==
    /\ ServerOff
    /\ DiscOff
    /\ PeerOff
    /\ StartOff
    /\ BusOff
    /\ FanOff
    /\ CfgOff
    /\ RcvOff

NextFan ==
    \/ FanSend
    \/ \E p \in Paths : FanSubscribe(p)
    \/ \E p \in Paths, wrote \in BOOLEAN : FanRecvArm(p, wrote)
    \/ \E frame \in {"Ping", "Pong"} : FanHeartbeat(frame)
    \/ \E ok \in BOOLEAN : FanWritten(ok)
    \/ \E p \in Paths : FanCloses(p)

SpecFan == InitFan /\ [][NextFan]_vars

\* ---- C33: FIFO per path, whole frames -------------------------------------

\* the updates the subscription of path p has yielded or skipped
Taken(p) == (fan_from[p] + 1)..(fan_next[p] - 1)

\* the numbers of a sequence increase
Increasing(s) == \A i, j \in 1..Len(s) : i < j => s[i] < s[j]

\* the update whose frame is being written, or whose write has failed
InWrite(p) ==
    IF fan_writing[p].frame = "Clipboard" THEN {fan_writing[p].n}
    ELSE IF fan_result[p] = "write error" THEN {fan_next[p] - 1}
    ELSE {}

\* C33: on each transport session the updates taken from the fan-out are
\* written to the socket in the order the monitor sent them, none twice and
\* none out of order, and none is left out unless the subscription reported
\* it as lagged; on a peer session no frame (Ping, Pong, Clipboard) is begun
\* before the frame before it is complete.
C33_FifoWholeFrames ==
    \A p \in Paths :
        fan_pc[p] # "idle" =>
            /\ Increasing(fan_wire[p])
            /\ \A i \in 1..Len(fan_wire[p]) : fan_wire[p][i] \in Taken(p)
            /\ \A n \in Taken(p) :
                  \/ \E i \in 1..Len(fan_wire[p]) : fan_wire[p][i] = n
                  \/ n \in fan_lagged[p]
                  \/ n \in InWrite(p)
            /\ \A i \in 1..Len(fan_wire[p]) : fan_wire[p][i] \notin fan_lagged[p]
            /\ ~fan_torn[p]

\* a peer session has written the first update, lost the second to lag while
\* a Ping was written, and written the third and the fourth
C33_Witness ==
    /\ fan_pc["peer"] = "select"
    /\ fan_from["peer"] = 0
    /\ fan_wire["peer"] = <<1, 3, 4>>
    /\ fan_lagged["peer"] = {2}
    /\ fan_wire["server"] = <<2, 3>>

\* ---- C34, C35: lag ---------------------------------------------------------

\* the send arm of path p has run and recv() reported lag
ReportsLag(p) == fan_arm' = [path |-> p, kind |-> "Lagged"]

\* the session of p goes on after the step: it is still in its select, with
\* one more Warn line, and its subscription yields next the oldest update
\* the ring still holds
GoesOn(p) ==
    /\ fan_pc'[p] = "select"
    /\ fan_result'[p] = "none"
    /\ fan_warns'[p] = fan_warns[p] + 1
    /\ fan_next'[p] = Oldest(fan_sent)
    /\ fan_wire'[p] = fan_wire[p]

C34_Step ==
    /\ ReportsLag("peer") => GoesOn("peer")
    /\ OnRecv("peer", "Closed") = "return Ok"
    /\ fan_result'["peer"] = "Ok" => fan_arm'.kind = "Closed"

\* C34: when the subscription of a LAN peer session reports lag, the session
\* logs a Warn, stays open and sends the updates that follow; when it
\* reports closed, the session returns Ok.
C34_PeerLag == [][C34_Step]_vars

\* a peer session has skipped the first two updates with one Warn and has
\* then written the third and the fourth
C34_Witness ==
    /\ fan_pc["peer"] = "select"
    /\ fan_from["peer"] = 0
    /\ fan_lagged["peer"] = {1, 2}
    /\ fan_warns["peer"] = 1
    /\ fan_wire["peer"] = <<3, 4>>

\* C35: when the subscription of the server send loop reports lag, the
\* WebSocket session stays connected, the lag is logged and the loop sends
\* the updates that follow; the monitor's broadcast is never held up.
C35_ServerLag ==
    [][/\ ReportsLag("server") => GoesOn("server")
       /\ fan_sent < MaxUpdates => ENABLED FanSend]_vars

\* what run_connection_loop does: lag ends the session without a line of
\* its own, and the session that follows starts behind the newest update
ServerLagBreaks ==
    [][ReportsLag("server") =>
          /\ fan_pc'["server"] = "ended"
          /\ fan_result'["server"] = "break"
          /\ fan_warns'["server"] = fan_warns["server"]]_vars

\* the monitor's send is possible whatever the subscribers do
BroadcastNeverWaits == fan_sent < MaxUpdates => ENABLED FanSend

\* the server session has ended on lag after its first update
ServerEndedOnLag ==
    /\ fan_result["server"] = "break"
    /\ fan_wire["server"] = <<1>>
    /\ fan_sent = 4

\* ---- the settings: save_settings, the store, the start of the runtime ------

MIN_IMAGE_KB == 1
MAX_IMAGE_KB == 524288
default_max_image_kb == 512

\* i32::MIN and i32::MAX
I32Min == -2147483647 - 1
I32Max == 2147483647

\* form values around the two ends of the range and of i32
FormValues ==
    {I32Min, -1, 0, 1, 2, 512, 524287, 524288, 524289, I32Max}

\* values a Config of the store can carry: every u64 deserializes. The low
\* part stays below 2^21 so that the products below stay inside the
\* 32-bit integers of TLC; 2^54 is the least value whose product with 1024
\* leaves u64
StoredValues ==
    {U64(0, 0), U64(0, 1), U64(0, 2), U64(0, 64), U64(0, 512), U64(0, 1024),
     U64(0, 8192), U64(0, 524287),
     U64(0, 524288), U64(0, 524289), U64(0, 2097151), U64(1, 0), U64(512, 0),
     U64(1023, 2097151)}

\* a clamp that lets zero through
clamp_FromZero(v, min, max) == IF v < 0 THEN min ELSE IF v > max THEN max ELSE v

\* Ord::clamp on i32
clamp(v, min, max) == IF v < min THEN min ELSE IF v > max THEN max ELSE v

\* form.max_image_kb.clamp(MIN_IMAGE_KB as i32, MAX_IMAGE_KB as i32) as u64
FormToConfig(v) == U64(0, clamp(v, MIN_IMAGE_KB, MAX_IMAGE_KB))

\* cfg.max_image_kb.clamp(Config::MIN_IMAGE_KB, Config::MAX_IMAGE_KB) as i32
ConfigToForm(v) ==
    IF v.hi > 0 THEN MAX_IMAGE_KB ELSE clamp(v.lo, MIN_IMAGE_KB, MAX_IMAGE_KB)

\* the value is within MIN_IMAGE_KB..MAX_IMAGE_KB
InRange(v) == v.hi = 0 /\ v.lo \in MIN_IMAGE_KB..MAX_IMAGE_KB

Panicked == U64(-2, -2)

\* max_image_kb * 1024 in u64: the product leaves u64 when one of the ten
\* highest bits is set; a build with overflow checks panics there, one
\* without keeps the low 64 bits
Threshold(v, checked) ==
    IF v.hi > 0
    THEN IF checked THEN Panicked ELSE U64(0, v.lo * 1024)
    ELSE U64(0, v.lo * 1024)

\* the setup of the application: the Config of the store, or the default
\* when there is none or it does not deserialize, starts the runtime
CfgStart ==
    /\ cfg_via = "none"
    /\ cfg_run' = IF cfg_store = NoValue THEN U64(0, default_max_image_kb)
                  ELSE cfg_store
    /\ cfg_via' = "start"
    /\ UNCHANGED <<cfg_store, cfg_form, cfg_threshold, cfg_shown>>
    /\ UNCHANGED <<serverVars, discVars, peerVars, startVars, busVars, fanVars,
                   rcvVars>>

\* save_settings with a form that passes the validation of its other
\* fields: the Config is stored and the runtime reloaded with it
SaveSettings(v) ==
    /\ cfg_form' = v
    /\ cfg_store' = FormToConfig(v)
    /\ cfg_run' = FormToConfig(v)
    /\ cfg_via' = "save"
    /\ cfg_threshold' = NoValue
    /\ cfg_shown' = FormToConfig(v).lo
    /\ UNCHANGED <<serverVars, discVars, peerVars, startVars, busVars, fanVars,
                   rcvVars>>

\* the monitor has an image and compares its size with the limit
MonitorThreshold(checked) ==
    /\ cfg_run # NoValue
    /\ cfg_threshold' = Threshold(cfg_run, checked)
    /\ UNCHANGED <<cfg_store, cfg_form, cfg_run, cfg_via, cfg_shown>>
    /\ UNCHANGED <<serverVars, discVars, peerVars, startVars, busVars, fanVars,
                   rcvVars>>

\* get_initial_state: the settings page is given SettingsForm::from of the
\* stored Config, or of the default
GetInitialState ==
    /\ cfg_shown' = ConfigToForm(IF cfg_store = NoValue
                                 THEN U64(0, default_max_image_kb)
                                 ELSE cfg_store)
    /\ UNCHANGED <<cfg_store, cfg_form, cfg_run, cfg_threshold, cfg_via>>
    /\ UNCHANGED <<serverVars, discVars, peerVars, startVars, busVars, fanVars,
                   rcvVars>>

InitCfg ==
    /\ ServerOff
    /\ DiscOff
    /\ PeerOff
    /\ StartOff
    /\ BusOff
    /\ FanOff
    /\ RcvOff
    /\ cfg_store \in StoredValues \cup {NoValue}
    /\ cfg_form = 0
    /\ cfg_run = NoValue
    /\ cfg_threshold = NoValue
    /\ cfg_via = "none"
    /\ cfg_shown = 0

NextCfg ==
    \/ CfgStart
    \/ GetInitialState
    \/ \E v \in FormValues : SaveSettings(v)
    \/ \E checked \in BOOLEAN : MonitorThreshold(checked)

SpecCfg == InitCfg /\ [][NextCfg]_vars

\* ---- C36: the image-size limit ---------------------------------------------

\* C36: the limit the runtime uses is always within 1..524288 KB:
\* save_settings maps every i32 form value into that range before it stores
\* and reloads, and for every Config that reaches the monitor, one read
\* from the store with an arbitrary u64 included, max_image_kb * 1024 is
\* computed from a value in that range and does not leave u64.
C36_ImageLimit ==
    /\ cfg_via = "save" => cfg_store.hi = 0 /\ cfg_store.lo \in 1..524288
    /\ cfg_run # NoValue =>
          /\ cfg_run.hi = 0 /\ cfg_run.lo \in 1..524288
          /\ cfg_threshold # NoValue =>
                /\ cfg_threshold # Panicked
                /\ cfg_threshold.lo = cfg_run.lo * 1024
                /\ cfg_run.hi = 0

\* what holds: a Config that save_settings made is in the range, in the
\* store and in the runtime, and its threshold is the product
SavedInRange ==
    cfg_via = "save" =>
        /\ InRange(cfg_store)
        /\ cfg_run = cfg_store
        /\ cfg_store.lo = (IF cfg_form < 1 THEN 1
                           ELSE IF cfg_form > 524288 THEN 524288 ELSE cfg_form)
        /\ cfg_threshold \in {NoValue, U64(0, cfg_run.lo * 1024)}
        /\ cfg_shown = cfg_store.lo

\* the runtime was started with the stored limit 0
StartedWithZero ==
    /\ cfg_via = "start"
    /\ cfg_run = U64(0, 0)
    /\ cfg_threshold = U64(0, 0)

\* the monitor of a runtime started with a stored limit of 2^54 or more has
\* panicked on the product, or gone on with its low 64 bits
StartedWithHuge ==
    /\ cfg_via = "start"
    /\ cfg_run.hi = 1023
    /\ cfg_threshold \in {Panicked, U64(0, 2097151 * 1024)}

\* ---- the inbound path of LAN mode -------------------------------------------

\* mpsc::channel::<ClipboardBroadcastPayload>(100) of start_lan_mode
APPLIER_CAPACITY == 100

\* the Clipboard frames a remote can write: text, an image whose data decodes,
\* one whose data does not, and a content_type the applier does not know
ClipboardFrames ==
    {[ct |-> CONTENT_TYPE_TEXT, good |-> TRUE],
     [ct |-> CONTENT_TYPE_IMAGE_PNG, good |-> TRUE],
     [ct |-> CONTENT_TYPE_IMAGE_PNG, good |-> FALSE],
     [ct |-> "text/html", good |-> TRUE]}

\* a session that publishes nothing of its own
SessionEvents_None(ct) == 0

\* the ClipboardReceived events the Clipboard arm of the session sends after
\* tx_in.send, whatever that send returned
SessionEvents(ct) == 1

\* what the applier makes of one payload: set_text or set_image_from_base64
\* for the two known types (ok: the write on the blocking thread succeeded),
\* a Warn line for every other type
Applied(f, ok) ==
    IF f.ct = CONTENT_TYPE_TEXT THEN (IF ok THEN "written" ELSE "failed")
    ELSE IF f.ct = CONTENT_TYPE_IMAGE_PNG
    THEN (IF f.good /\ ok THEN "written" ELSE "failed")
    ELSE "unknown"

\* an applier that reports every payload it took
ApplierEvents_Always(result) == 1

\* the applier sends ClipboardReceived in the Ok branch only
ApplierEvents(result) == IF result = "written" THEN 1 ELSE 0

\* the read arm of the session has a whole Clipboard frame: the payload is
\* built and the arm is at tx_in.send(payload).await
RcvFrame(f) ==
    /\ rcv_pc = "select"
    /\ rcv_sent < MaxFrames
    /\ rcv_sent' = rcv_sent + 1
    /\ rcv_frames' = [rcv_frames EXCEPT ![rcv_sent + 1] = f]
    /\ rcv_hand' = rcv_sent + 1
    /\ rcv_pc' = "forward"
    /\ UNCHANGED <<rcv_queue, rcv_open, rcv_events, rcv_done>>
    /\ UNCHANGED <<serverVars, discVars, peerVars, startVars, busVars, fanVars,
                   cfgVars>>

\* tx_in.send returns: the payload is in the queue, or the applier has
\* dropped rx_in and the send returns Err, which `let _ =` ignores
RcvForward ==
    /\ rcv_pc = "forward"
    /\ rcv_open => Len(rcv_queue) < APPLIER_CAPACITY
    /\ rcv_queue' = IF rcv_open THEN Append(rcv_queue, rcv_hand) ELSE rcv_queue
    /\ rcv_done' = IF rcv_open THEN rcv_done
                   ELSE [rcv_done EXCEPT ![rcv_hand] = "lost"]
    /\ rcv_pc' = "publish"
    /\ UNCHANGED <<rcv_sent, rcv_frames, rcv_hand, rcv_open, rcv_events>>
    /\ UNCHANGED <<serverVars, discVars, peerVars, startVars, busVars, fanVars,
                   cfgVars>>

\* the rest of the arm: the Info line and the event, then back to the select
RcvPublish ==
    /\ rcv_pc = "publish"
    /\ rcv_events' =
          [rcv_events EXCEPT ![rcv_hand].session =
               @ + SessionEvents(rcv_frames[rcv_hand].ct)]
    /\ rcv_hand' = 0
    /\ rcv_pc' = "select"
    /\ UNCHANGED <<rcv_sent, rcv_frames, rcv_queue, rcv_open, rcv_done>>
    /\ UNCHANGED <<serverVars, discVars, peerVars, startVars, busVars, fanVars,
                   cfgVars>>

\* the applier takes the next payload and handles it to the end
ApplierTake(ok) ==
    /\ rcv_open
    /\ rcv_queue # <<>>
    /\ LET i == Head(rcv_queue)
           result == Applied(rcv_frames[i], ok)
       IN  /\ rcv_done' = [rcv_done EXCEPT ![i] = result]
           /\ rcv_events' =
                 [rcv_events EXCEPT ![i].applier = @ + ApplierEvents(result)]
    /\ rcv_queue' = Tail(rcv_queue)
    /\ UNCHANGED <<rcv_sent, rcv_frames, rcv_pc, rcv_hand, rcv_open>>
    /\ UNCHANGED <<serverVars, discVars, peerVars, startVars, busVars, fanVars,
                   cfgVars>>

\* the cancel arm of the applier wins: it breaks and rx_in is dropped with
\* what it still holds
ApplierStops ==
    /\ rcv_open
    /\ rcv_open' = FALSE
    /\ rcv_done' = [i \in FrameIds |->
                      IF \E k \in 1..Len(rcv_queue) : rcv_queue[k] = i
                      THEN "lost" ELSE rcv_done[i]]
    /\ rcv_queue' = <<>>
    /\ UNCHANGED <<rcv_sent, rcv_frames, rcv_pc, rcv_hand, rcv_events>>
    /\ UNCHANGED <<serverVars, discVars, peerVars, startVars, busVars, fanVars,
                   cfgVars>>

\* the cancel arm of the session wins its select, or the remote closes
RcvStops ==
    /\ rcv_pc = "select"
    /\ rcv_pc' = "stopped"
    /\ UNCHANGED <<rcv_sent, rcv_frames, rcv_hand, rcv_queue, rcv_open,
                   rcv_events, rcv_done>>
    /\ UNCHANGED <<serverVars, discVars, peerVars, startVars, busVars, fanVars,
                   cfgVars>>

InitRcv ==
    /\ ServerOff
    /\ DiscOff
    /\ PeerOff
    /\ StartOff
    /\ BusOff
    /\ FanOff
    /\ CfgOff
    /\ rcv_sent = 0
    /\ rcv_frames = [i \in FrameIds |-> NoClipboard]
    /\ rcv_pc = "select"
    /\ rcv_hand = 0
    /\ rcv_queue = <<>>
    /\ rcv_open = TRUE
    /\ rcv_events = [i \in FrameIds |-> NoEvents]
    /\ rcv_done = [i \in FrameIds |-> "none"]

NextRcv ==
    \/ \E f \in ClipboardFrames : RcvFrame(f)
    \/ RcvForward
    \/ RcvPublish
    \/ \E ok \in BOOLEAN : ApplierTake(ok)
    \/ ApplierStops
    \/ RcvStops

SpecRcv == InitRcv /\ [][NextRcv]_vars

\* ---- C37: ClipboardReceived in LAN mode -------------------------------------

\* both tasks are done with frame i
Settled(i) ==
    /\ i <= rcv_sent
    /\ rcv_hand # i
    /\ rcv_done[i] # "none"

EventsOf(i) == rcv_events[i].session + rcv_events[i].applier

\* C37: in LAN mode every inbound Clipboard frame produces exactly one
\* ClipboardReceived event, and the event is published only if the payload
\* was written to the OS clipboard: none for an unknown content_type, a
\* decode failure or a write error.
C37_OneEventOnSuccess ==
    \A i \in FrameIds :
        /\ EventsOf(i) > 0 => rcv_done[i] = "written"
        /\ Settled(i) =>
              EventsOf(i) = (IF rcv_done[i] = "written" THEN 1 ELSE 0)

\* what holds: the session publishes one event per frame it dispatched,
\* whatever became of the payload, and the applier one more for each
\* payload it wrote
EventPerPublisher ==
    \A i \in FrameIds :
        /\ rcv_events[i].session =
              (IF i <= rcv_sent /\ rcv_hand # i THEN 1 ELSE 0)
        /\ rcv_events[i].applier = (IF rcv_done[i] = "written" THEN 1 ELSE 0)

\* a frame that was written has two events
WrittenTwice ==
    \E i \in FrameIds :
        Settled(i) /\ rcv_done[i] = "written" /\ EventsOf(i) = 2

\* a frame that was not written has one
EventWithoutWrite ==
    \E i \in FrameIds :
        /\ Settled(i)
        /\ rcv_done[i] \in {"failed", "unknown", "lost"}
        /\ EventsOf(i) = 1

\* ---- C38: integrity of the inbound frames -----------------------------------

\* the head of the stream is a frame as the remote wrote it
AsWritten(f) ==
    \E g \in InboundFrames : g.len_buf = f.len_buf /\ g.body = f.body

\* the step is an iteration of the session loop that an arm other than the
\* read won, and the loop goes on
OtherArmWon ==
    /\ peer_pc = "session"
    /\ peer_pc' = "session"
    /\ peer_arm' \in {"tick", "send"}

\* C38: every frame the remote writes is dispatched exactly once and in
\* order by the session loop, for every interleaving of the tick, send and
\* cancel arms with a frame that has only partly arrived: an iteration won by
\* another arm leaves the frame at the head of the stream as it was, bytes
\* already consumed included, and what the read arm then takes for a frame
\* is a frame the remote wrote.
C38_Step ==
    /\ OtherArmWon /\ peer_inbound # NoFrame =>
          /\ peer_inbound'.len_buf = peer_inbound.len_buf
          /\ peer_inbound'.body = peer_inbound.body
    /\ peer_pc = "session" /\ peer_arm' \in PeerMessages \cup {"readerr"} =>
          AsWritten(peer_inbound)
    /\ peer_pc = "session" /\ peer_arm' \in PeerMessages =>
          peer_arm' = peer_inbound.body

C38_FrameIntegrity == [][C38_Step]_vars

\* what holds: the head of the stream stops being a frame of the remote only
\* in an iteration that the tick or the send arm won while the read had
\* consumed a prefix, and a frame read in one piece is dispatched as written
LostOnlyByDrop ==
    [][/\ AsWritten(peer_inbound) /\ peer_inbound' # NoFrame
          /\ ~AsWritten(peer_inbound') =>
              peer_reading /\ OtherArmWon
       /\ peer_pc = "session" /\ peer_arm' \in PeerMessages =>
              peer_arm' = peer_inbound.body]_vars

\* the session goes on with payload bytes at the head of the stream, which
\* the next read takes for a length prefix
Desynchronised ==
    /\ peer_pc = "session"
    /\ peer_inbound = Remainder(peer_inbound)
    /\ ~peer_reading

\* ---- C39: updates emitted with no session subscribed ------------------------

\* the read holds what the monitor has recorded as broadcast last
ReadIsLast(s) ==
    \/ mon_read[s].kind = "text" /\ mon_read[s].data = last_text[s]
    \/ /\ mon_read[s].kind = "image"
       /\ PngHash(mon_read[s].data) = last_image_hash[s]

C39_Step(s) ==
    /\ Evaluates(s) /\ Emits(outcome'[s]) /\ ~subscribed[s] =>
          /\ rx_updates'[s] = <<>>
          /\ outcome'[s] = "text_emit" => last_text'[s] = mon_read[s].data
          /\ outcome'[s] = "image_emit" =>
                last_image_hash'[s] = PngHash(mon_read[s].data)
    /\ ~subscribed[s] /\ subscribed'[s] => rx_updates'[s] = <<>>
    /\ Len(rx_updates'[s]) > Len(rx_updates[s]) =>
          /\ subscribed[s]
          /\ Evaluates(s)
          /\ rx_updates'[s] = rx_updates[s] \o sent_now'[s]
    /\ Evaluates(s) /\ ReadIsLast(s) => ~Emits(outcome'[s])

\* C39: a ClipboardUpdate the monitor emits while no session is subscribed
\* to the fan-out is discarded and never reaches a session that subscribes
\* later (a subscription starts empty and receives only what is emitted
\* while it exists), yet the monitor records it as the last broadcast text or
\* hash, so the unchanged content is not emitted again once the session is
\* established.
C39_DiscardedAndRecorded == [][C39_Step("alpha")]_vars

\* the monitor has just emitted the text of the clipboard before the
\* connection task subscribed: nothing is pending, the text is recorded
C39_Witness ==
    /\ ~subscribed["alpha"]
    /\ conn_pc["alpha"] \notin {"steady", "done"}
    /\ outcome["alpha"] = "text_emit"
    /\ sent_now["alpha"] # <<>>
    /\ rx_updates["alpha"] = <<>>
    /\ last_text["alpha"] = "a"
    /\ clipboard["m1"] = Txt("a")

\* the session is established with the clipboard unchanged, the monitor has
\* polled again and skipped, and the server has been sent nothing
SkippedAfterConnect ==
    /\ subscribed["alpha"]
    /\ outcome["alpha"] = "text_skip"
    /\ emit_total["alpha"] = 1
    /\ last_text["alpha"] = "a"
    /\ clipboard["m1"] = Txt("a")
    /\ rx_updates["alpha"] = <<>>
    /\ wire_up["alpha"] = <<>>

\* ---- scenario S2: two connected agents, two user changes at once ----------

\* both agents are connected and subscribed; the user of m1 has just copied
\* "a" and the user of m2 "b", and neither monitor has polled since
InitS2 ==
    /\ LanOff
    /\ InitSessions(Sessions)
    /\ machine = [s \in Sessions |-> IF s = "alpha" THEN "m1" ELSE "m2"]
    /\ Started
    /\ subscribed = [s \in Sessions |-> TRUE]
    /\ conn_pc = [s \in Sessions |-> "steady"]
    /\ clipboard = [m \in Machines |-> IF m = "m1" THEN Txt("a") ELSE Txt("b")]
    /\ last_text = [s \in Sessions |-> ""]

\* the monitor, its emissions not counted
S2Monitor(s) ==
    \/ MonCheckFlag(s)
    \/ MonRead(s)
    \/ MonEvaluate(s) /\ UNCHANGED emit_total
    \/ MonWake(s)

\* the session of the other agent
Other(s) == IF s = "alpha" THEN "beta" ELSE "alpha"

\* run_peer_session, outbound arm: an update of the fan-out is written to
\* the peer as a Clipboard frame, which carries content_type and data
PeerSend(s) ==
    /\ rx_updates[s] # <<>>
    /\ rx_updates' = [rx_updates EXCEPT ![s] = Tail(@)]
    /\ wire_down' = [wire_down EXCEPT ![Other(s)] =
                        Append(@, Head(rx_updates[s]))]
    /\ UNCHANGED <<envVars, disable_flag, cancel, subscribed, monVars, setVars,
                   emit_total, conn_pc, conn_timer, wire_up, supVars>>

\* run_peer_session, inbound arm: the payload of a Clipboard frame goes to
\* the applier queue
PeerRecv(s) ==
    /\ wire_down[s] # <<>>
    /\ Len(rx_in[s]) < APPLIER_CAPACITY
    /\ LET f == Head(wire_down[s]) IN
         rx_in' = [rx_in EXCEPT ![s] =
                     Append(@, ClipboardBroadcastPayload(f.content_type, f.data))]
    /\ wire_down' = [wire_down EXCEPT ![s] = Tail(@)]
    /\ UNCHANGED <<envVars, shared, monVars, set_pc, set_payload, set_result,
                   emit_total, conn_pc, conn_timer, wire_up, supVars>>

S2Session(s) == PeerSend(s) \/ PeerRecv(s)

\* deliveries and writes take less than a tenth of a second: time passes
\* while nothing is queued, on the wire or being applied
S2Tick == Quiet /\ Tick

\* no user change follows
NextS2 ==
    \/ S2Tick
    \/ \E s \in Sessions : S2Monitor(s) \/ S1Applier(s) \/ S2Session(s)

\* every task and the relay keep being scheduled, and time passes
FairS2 ==
    /\ WF_vars(S2Tick)
    /\ \A s \in Sessions :
         /\ WF_vars(S2Monitor(s))
         /\ WF_vars(S1Applier(s))
         /\ WF_vars(S2Session(s))

SpecS2 == InitS2 /\ [][NextS2]_vars /\ FairS2

\* ---- C40: quiescence under concurrent changes -------------------------------

\* nothing is queued, on the wire or being applied, and the two clipboards
\* hold the same
AtRest == Quiet /\ clipboard["m1"] = clipboard["m2"]

\* C40: when two connected agents have their clipboards set once by the
\* user to different texts at about the same time and no user change
\* follows, then for every interleaving of polls, applier writes and
\* deliveries the system eventually reaches a state with no update in
\* flight and no further emission, and both clipboards hold the same text.
C40_Quiescence == <>[]AtRest

\* the two texts have crossed: each clipboard holds the text the other user
\* copied, written by the applier, and each monitor is about to find its
\* clipboard different from what it broadcast last
Swapped ==
    /\ Quiet
    /\ clipboard = [m \in Machines |-> IF m = "m1" THEN Txt("b") ELSE Txt("a")]
    /\ last_text = [s \in Sessions |-> IF s = "alpha" THEN "a" ELSE "b"]

\* a schedule in which one update overtakes the other monitor's first poll
\* does settle
Settled2 ==
    /\ AtRest
    /\ \A s \in Sessions :
          /\ clipboard[machine[s]] = Txt(last_text[s])
          /\ mon_pc[s] = "sleep"
          /\ outcome[s] = "text_skip"
====
